---- MODULE Spec2Model ----
(***************************************************************************)
(* A model of the hitagi language server.                                  *)
(*                                                                         *)
(*  - Spec      : the LSP transport loop of src/lsp/server.rs, with the    *)
(*                document store, the configuration, the diagnostics       *)
(*                worker thread and the writer thread.                     *)
(*  - SpecLex   : the lexer of src/inlay/mod.rs applied to every text over *)
(*                a small alphabet.                                        *)
(*  - SpecInlay : inlay_hints of src/inlay/mod.rs over a document store    *)
(*                that a client edits.                                     *)
(*  - SpecFair  : Spec with the worker thread scheduled fairly.            *)
(*  - SpecIndex, SpecUri, SpecPos : the index merges, the path and uri     *)
(*                conversions, the offset and position conversions.        *)
(*  - SpecLet, SpecArgs, SpecConst, SpecChain, SpecAngle, SpecRhs : one    *)
(*                pass of inlay_hints on a text typed piece by piece.      *)
(*  - SpecFn    : add_source on typed function declarations.               *)
(*  - SpecHover : hover of src/hover/mod.rs on a store of sources.         *)
(*                                                                         *)
(* Strings of the program are sequences of one-character strings, so that  *)
(* the byte-oriented code can index them.  The output stream is taken to   *)
(* accept every write (write_all and flush of writer_loop succeed).        *)
(***************************************************************************)
EXTENDS Integers, Sequences, FiniteSets, TLC

VARIABLES
    mainPc,        \* position of run(): "read", "handle", "join", "returned"
    cur,           \* the message read_message returned, being handled
    readStatus,    \* "open", or why read_message ended the loop: "eof",
                   \* "no_length", "io_error", "bad_json"
    nRead,         \* number of messages read so far (bounds the input)
    reqLog,        \* history: the ids of the requests read, in order
    config,        \* State.config: [check_on_save, check_command]
    root,          \* State.root: NoRoot or a path
    docs,          \* State.docs: uri -> NoDoc or [text, version]
    shutdown,      \* State.shutdown
    diag_running,  \* State.diag_running, the shared atomic flag
    workers,       \* the diagnostics worker threads alive, in spawn order
    queue,         \* the mpsc channel: messages sent and not yet received
    written,       \* the messages the writer thread has written to stdout
    writerDone,    \* the writer thread has left writer_loop
    ltext,         \* the text handed to lex
    ltokens,       \* the tokens lex returned for ltext
    lpc,           \* "input": ltext is being typed; "lexed": lex has run
    ipc,           \* "done" once inlay_hints has returned for the store as
                   \* it is, "idle" otherwise
    ireq,          \* the uri and the range of the call
    iindex,        \* the WorkspaceIndex the call built
    ipass,         \* the hints of each of the four passes
    ihints,        \* the hints the call returned
    mindex,        \* the WorkspaceIndex a build is merging sources into
    merged,        \* the sources add_source has merged into mindex, in order
    reorder,       \* the same sources in the order a second build met them
    rebuilt,       \* the index of the second build, None before it
    upath,         \* the path handed to path_to_uri, as bytes
    uuri,          \* what path_to_uri returned for upath
    uback,         \* what uri_to_path returned for uuri
    upc,           \* "input": upath is being typed; "converted"
    ptext,         \* the text handed to offset_to_position, as characters
    poff,          \* the byte offset handed to offset_to_position
    ppos,          \* what offset_to_position returned
    pback,         \* what position_to_offset returned for ppos
    ppc,           \* "input": ptext is being typed; "converted"
    vtext,         \* the text handed to a pass, as the pieces typed
    vhints,        \* the hints the pass returned
    vpc,           \* "input": vtext is being typed; "done"
    hdocs,         \* a document store of sources: uri -> None or its text
    hreq,          \* the uri and the position of the hover request
    hfirst,        \* what hover returned for hreq
    hagain,        \* what hover returned when the store iterated otherwise
    hpc            \* "edit", "asked" after the first call, "again"

serverVars == <<mainPc, cur, readStatus, nRead, reqLog, config, root, docs, shutdown,
                diag_running, workers, queue, written, writerDone>>

lexVars == <<ltext, ltokens, lpc>>

inlayVars == <<ipc, ireq, iindex, ipass, ihints>>

indexVars == <<mindex, merged, reorder, rebuilt>>

(* The variables other than those of the server, of lex, of inlay_hints.    *)
uriVars == <<upath, uuri, uback, upc>>

posVars == <<ptext, poff, ppos, pback, ppc>>

letVars == <<vtext, vhints, vpc>>

hoverVars == <<hdocs, hreq, hfirst, hagain, hpc>>

notServer == <<lexVars, inlayVars, indexVars, uriVars, posVars, letVars,
    hoverVars>>

notLex == <<serverVars, inlayVars, indexVars, uriVars, posVars, letVars,
    hoverVars>>

notInlay == <<lexVars, indexVars, uriVars, posVars, letVars,
    hoverVars>>

notIndex == <<serverVars, lexVars, inlayVars, uriVars, posVars, letVars,
    hoverVars>>

notUri == <<serverVars, lexVars, inlayVars, indexVars, posVars, letVars,
    hoverVars>>

notPos == <<serverVars, lexVars, inlayVars, indexVars, uriVars, letVars,
    hoverVars>>

notLet == <<serverVars, lexVars, inlayVars, indexVars, uriVars, posVars, hoverVars>>

notHover == <<serverVars, lexVars, inlayVars, indexVars, uriVars, posVars, letVars>>

vars == <<serverVars, lexVars, inlayVars, indexVars, uriVars, posVars, letVars,
         hoverVars>>

(***************************************************************************)
(* Bounds of the model.                                                    *)
(***************************************************************************)
MaxMsgs == 3
MaxLexLen == 3
MaxSnippets == 2
MaxSources == 3
MaxPathLen == 4
MaxTextLen == 4
MaxPieces == 4

(***************************************************************************)
(* Small helpers.                                                          *)
(***************************************************************************)
Last(s) == s[Len(s)]

IsPrefix(p, s) == Len(p) <= Len(s) /\ SubSeq(s, 1, Len(p)) = p

RemoveAt(s, i) == [j \in 1..(Len(s) - 1) |-> IF j < i THEN s[j] ELSE s[j + 1]]

(***************************************************************************)
(* The values of the transport.                                            *)
(***************************************************************************)
Uris == {"u1", "u2"}
Texts == {"t1", "t2"}
Versions == {1, 2}
Ids == {1, 2}

NoId == 0
NoMethod == "<none>"
NoRoot == "<none>"
NoDoc == [open |-> FALSE]
NoMsg == [method |-> NoMethod, id |-> NoId, params |-> [ok |-> FALSE]]

Msg(method, id, params) == [method |-> method, id |-> id, params |-> params]

(* params that serde cannot deserialize into the handler's type (absent,    *)
(* null, or of the wrong shape).                                            *)
BadParams == [ok |-> FALSE]

(***************************************************************************)
(* Configuration: src/config.rs.  workspace_mode has one value and          *)
(* log_level is read by nothing; neither is kept.                           *)
(***************************************************************************)
DefaultCheckCommand == <<"cargo", "check", "-q", "--message-format=json">>

ConfigDefault == [check_on_save |-> TRUE, check_command |-> DefaultCheckCommand]

(* A JSON value of a settings object: absent, or a tagged value.            *)
Absent == [t |-> "absent"]
JBool(b) == [t |-> "bool", b |-> b]
JStr(s) == [t |-> "string", s |-> s]
JNum == [t |-> "number"]
JArr(items) == [t |-> "array", items |-> items]

(* for item in arr { if let Some(s) = item.as_str() { next.push(s) } }      *)
RECURSIVE StringItems(_)
StringItems(items) ==
    IF items = <<>> THEN <<>>
    ELSE LET rest == StringItems(Tail(items))
         IN  IF Head(items).t = "string" THEN <<Head(items).s>> \o rest ELSE rest

(* An update_from_settings that takes the strings of any array.             *)
update_from_settings_AnyArray(cfg, settings) ==
    LET inner == IF settings.stapler.t = "object" THEN settings.stapler.v ELSE settings
        c1 == IF inner.checkOnSave.t = "bool"
              THEN [cfg EXCEPT !.check_on_save = inner.checkOnSave.b]
              ELSE cfg
    IN  IF inner.checkCommand.t = "array"
        THEN [c1 EXCEPT !.check_command = StringItems(inner.checkCommand.items)]
        ELSE c1

(* settings is the object the keys are read from (the one under "stapler"   *)
(* when that key is present, else settings itself).                         *)
update_from_settings(cfg, settings) ==
    LET inner == IF settings.stapler.t = "object" THEN settings.stapler.v ELSE settings
        c1 == IF inner.checkOnSave.t = "bool"
              THEN [cfg EXCEPT !.check_on_save = inner.checkOnSave.b]
              ELSE cfg
        next == IF inner.checkCommand.t = "array"
                THEN StringItems(inner.checkCommand.items)
                ELSE <<>>
    IN  IF next # <<>> THEN [c1 EXCEPT !.check_command = next] ELSE c1

(***************************************************************************)
(* The document store: src/doc/store.rs.                                   *)
(***************************************************************************)
Doc(text, version) == [open |-> TRUE, text |-> text, version |-> version]

DocumentStoreNew == [u \in Uris |-> NoDoc]

StoreOpen(d, uri, version, text) == [d EXCEPT ![uri] = Doc(text, version)]

(* A change_full that keeps the version of a document already stored.       *)
StoreChangeFull_KeepVersion(d, uri, version, text) ==
    IF d[uri].open THEN [d EXCEPT ![uri] = Doc(text, d[uri].version)]
    ELSE [d EXCEPT ![uri] = Doc(text, version)]

(* Both branches of change_full leave the same document in the store.       *)
StoreChangeFull(d, uri, version, text) == [d EXCEPT ![uri] = Doc(text, version)]

StoreClose(d, uri) == [d EXCEPT ![uri] = NoDoc]

open_urls(d) == {u \in Uris : d[u].open}

(***************************************************************************)
(* Outgoing messages: send_response, send_error, publish_diagnostics.      *)
(* The channel carries the JSON values; the Content-Length framing of      *)
(* send_value is not kept.                                                  *)
(***************************************************************************)
send_response(id, result) ==
    [kind |-> "response", id |-> id, code |-> 0, uri |-> "", body |-> result]

send_error(id, code) ==
    [kind |-> "error", id |-> id, code |-> code, uri |-> "", body |-> <<>>]

PublishMsg(uri, diagnostics) ==
    [kind |-> "publishDiagnostics", id |-> NoId, code |-> 0, uri |-> uri,
     body |-> diagnostics]

MethodNotFound == -32601
InvalidParams == -32602

(***************************************************************************)
(* initialize: extract_root takes rootUri, then rootPath, then the first   *)
(* workspace folder whose uri is a file uri.  A uri is modelled by the     *)
(* path uri_to_path gives for it, NoRoot when it gives None.               *)
(***************************************************************************)
RECURSIVE FirstFolderPath(_)
FirstFolderPath(folders) ==
    IF folders = <<>> THEN NoRoot
    ELSE IF Head(folders) # NoRoot THEN Head(folders)
    ELSE FirstFolderPath(Tail(folders))

extract_root(params) ==
    IF params.root_uri.present /\ params.root_uri.path # NoRoot
    THEN params.root_uri.path
    ELSE IF params.root_path # NoRoot THEN params.root_path
    ELSE FirstFolderPath(params.workspace_folders)

(***************************************************************************)
(* The state the request thread owns, and what handling a message does:    *)
(* the new state, the messages sent on the channel (in order), the worker  *)
(* threads spawned, and whether the loop must stop.                        *)
(***************************************************************************)
Effect(st, out, spawned, exit) ==
    [st |-> st, out |-> out, spawned |-> spawned, exit |-> exit]

(* hover_at over the store; its result is carried as an opaque value.       *)
handle_hover(st, params) == <<"hover">>

(* handle_request with the two error codes exchanged.                       *)
handle_request_CodesSwapped(st, method, id, value) ==
    CASE method = "initialize" ->
            IF value.params.ok
            THEN Effect([st EXCEPT !.root = extract_root(value.params)],
                        <<send_response(id, <<"capabilities">>)>>, <<>>, FALSE)
            ELSE Effect(st, <<send_error(id, MethodNotFound)>>, <<>>, FALSE)
      [] method = "shutdown" ->
            Effect([st EXCEPT !.shutdown = TRUE],
                   <<send_response(id, <<>>)>>, <<>>, FALSE)
      [] method = "textDocument/hover" ->
            IF value.params.ok
            THEN Effect(st, <<send_response(id, handle_hover(st, value.params))>>,
                        <<>>, FALSE)
            ELSE Effect(st, <<send_error(id, MethodNotFound)>>, <<>>, FALSE)
      [] OTHER ->
            Effect(st, <<send_error(id, InvalidParams)>>, <<>>, FALSE)

(* handle_request whose shutdown arm forgets to answer.                     *)
handle_request_SilentShutdown(st, method, id, value) ==
    CASE method = "initialize" ->
            IF value.params.ok
            THEN Effect([st EXCEPT !.root = extract_root(value.params)],
                        <<send_response(id, <<"capabilities">>)>>, <<>>, FALSE)
            ELSE Effect(st, <<send_error(id, InvalidParams)>>, <<>>, FALSE)
      [] method = "shutdown" ->
            Effect([st EXCEPT !.shutdown = TRUE], <<>>, <<>>, FALSE)
      [] method = "textDocument/hover" ->
            IF value.params.ok
            THEN Effect(st, <<send_response(id, handle_hover(st, value.params))>>,
                        <<>>, FALSE)
            ELSE Effect(st, <<send_error(id, InvalidParams)>>, <<>>, FALSE)
      [] OTHER ->
            Effect(st, <<send_error(id, MethodNotFound)>>, <<>>, FALSE)

handle_request(st, method, id, value) ==
    CASE method = "initialize" ->
            IF value.params.ok
            THEN Effect([st EXCEPT !.root = extract_root(value.params)],
                        <<send_response(id, <<"capabilities">>)>>, <<>>, FALSE)
            ELSE Effect(st, <<send_error(id, InvalidParams)>>, <<>>, FALSE)
      [] method = "shutdown" ->
            Effect([st EXCEPT !.shutdown = TRUE],
                   <<send_response(id, <<>>)>>, <<>>, FALSE)
      [] method = "textDocument/hover" ->
            IF value.params.ok
            THEN Effect(st, <<send_response(id, handle_hover(st, value.params))>>,
                        <<>>, FALSE)
            ELSE Effect(st, <<send_error(id, InvalidParams)>>, <<>>, FALSE)
      [] OTHER ->
            Effect(st, <<send_error(id, MethodNotFound)>>, <<>>, FALSE)

(* A worker thread: the values the closure captured, and where it is.       *)
Worker(rt, command, urls) ==
    [pc |-> "run_check", root |-> rt, check_command |-> command,
     open_urls |-> urls, todo |-> urls, result |-> "pending",
     map |-> [u \in Uris |-> <<>>], sent |-> <<>>]

(* handle_did_save that loads the flag but spawns whatever it reads.        *)
handle_did_save_NoGate(st) ==
    IF ~st.config.check_on_save THEN Effect(st, <<>>, <<>>, FALSE)
    ELSE IF st.root = NoRoot THEN Effect(st, <<>>, <<>>, FALSE)
    ELSE Effect([st EXCEPT !.diag_running = TRUE], <<>>,
                <<Worker(st.root, st.config.check_command, open_urls(st.docs))>>,
                FALSE)

(* A handle_did_save that does not read check_on_save.                      *)
handle_did_save_AlwaysCheck(st) ==
    IF st.root = NoRoot THEN Effect(st, <<>>, <<>>, FALSE)
    ELSE IF st.diag_running THEN Effect(st, <<>>, <<>>, FALSE)
    ELSE Effect([st EXCEPT !.diag_running = TRUE], <<>>,
                <<Worker(st.root, st.config.check_command, open_urls(st.docs))>>,
                FALSE)

handle_did_save(st) ==
    IF ~st.config.check_on_save THEN Effect(st, <<>>, <<>>, FALSE)
    ELSE IF st.root = NoRoot THEN Effect(st, <<>>, <<>>, FALSE)
    ELSE IF st.diag_running THEN Effect(st, <<>>, <<>>, FALSE)
    ELSE Effect([st EXCEPT !.diag_running = TRUE], <<>>,
                <<Worker(st.root, st.config.check_command, open_urls(st.docs))>>,
                FALSE)

handle_notification(st, method, value) ==
    CASE method = "initialized" -> Effect(st, <<>>, <<>>, FALSE)
      [] method = "exit" -> Effect(st, <<>>, <<>>, TRUE)
      [] method = "textDocument/didOpen" ->
            IF value.params.ok
            THEN Effect([st EXCEPT !.docs = StoreOpen(@, value.params.uri,
                                 value.params.version, value.params.text)],
                        <<>>, <<>>, FALSE)
            ELSE Effect(st, <<>>, <<>>, FALSE)
      [] method = "textDocument/didChange" ->
            IF value.params.ok /\ value.params.content_changes # <<>>
            THEN Effect([st EXCEPT !.docs = StoreChangeFull(@, value.params.uri,
                                 value.params.version,
                                 Last(value.params.content_changes))],
                        <<>>, <<>>, FALSE)
            ELSE Effect(st, <<>>, <<>>, FALSE)
      [] method = "textDocument/didClose" ->
            IF value.params.ok
            THEN Effect([st EXCEPT !.docs = StoreClose(@, value.params.uri)],
                        <<>>, <<>>, FALSE)
            ELSE Effect(st, <<>>, <<>>, FALSE)
      [] method = "textDocument/didSave" ->
            IF value.params.ok THEN handle_did_save(st)
            ELSE Effect(st, <<>>, <<>>, FALSE)
      [] method = "workspace/didChangeConfiguration" ->
            IF value.params.ok
            THEN Effect([st EXCEPT !.config =
                             update_from_settings(@, value.params.settings)],
                        <<>>, <<>>, FALSE)
            ELSE Effect(st, <<>>, <<>>, FALSE)
      [] OTHER -> Effect(st, <<>>, <<>>, FALSE)

handle_message(st, value) ==
    IF value.method # NoMethod /\ value.id # NoId
    THEN handle_request(st, value.method, value.id, value)
    ELSE IF value.method # NoMethod
    THEN handle_notification(st, value.method, value)
    ELSE Effect(st, <<>>, <<>>, FALSE)


(***************************************************************************)
(* The lexer: src/inlay/mod.rs.  A text is a sequence of bytes, each a     *)
(* one-character string; offsets count from 0 as in the code.              *)
(***************************************************************************)
Some(x) == [some |-> TRUE, v |-> x]
None == [some |-> FALSE]

(* vec.push(x) when the Option holds one *)
PushSome(vec, opt) == IF opt.some THEN Append(vec, opt.v) ELSE vec

At(bytes, i) == bytes[i + 1]

(* text[from..to] *)
Slice(bytes, from, to) == SubSeq(bytes, from + 1, to)

Letters ==
    {"a", "b", "c", "d", "e", "f", "g", "h", "i", "j", "k", "l", "m", "n",
     "o", "p", "q", "r", "s", "t", "u", "v", "w", "x", "y", "z",
     "A", "B", "C", "D", "E", "F", "G", "H", "I", "J", "K", "L", "M", "N",
     "O", "P", "Q", "R", "S", "T", "U", "V", "W", "X", "Y", "Z"}

Digits == {"0", "1", "2", "3", "4", "5", "6", "7", "8", "9"}

is_ascii_whitespace(b) == b \in {" ", "\t", "\n", "\f", "\r"}

is_ident_start(b) == b = "_" \/ b \in Letters

is_ident_continue(b) == b = "_" \/ b \in Letters \/ b \in Digits

Token(kind, name, ch, start, end) ==
    [kind |-> kind, name |-> name, ch |-> ch, start |-> start, end |-> end]

(* The tests of the scanning loops.                                         *)
InClass(b, class) ==
    CASE class = "ident_continue" -> is_ident_continue(b)
      [] class = "hash" -> b = "#"
      [] class = "not_newline" -> b # "\n"
      [] class = "number" -> b \in Letters \/ b \in Digits \/ b = "_" \/ b = "."
      [] class = "whitespace" -> is_ascii_whitespace(b)

(* while idx < len && test(bytes[idx]) { idx += 1 }                          *)
RECURSIVE RunEnd(_, _, _)
RunEnd(bytes, idx, class) ==
    IF idx < Len(bytes) /\ InClass(At(bytes, idx), class)
    THEN RunEnd(bytes, idx + 1, class)
    ELSE idx

RECURSIVE skip_normal_string(_, _)
skip_normal_string(bytes, idx) ==
    IF idx >= Len(bytes) THEN Len(bytes)
    ELSE IF At(bytes, idx) = "\\" THEN skip_normal_string(bytes, idx + 2)
    ELSE IF At(bytes, idx) = "\"" THEN idx + 1
    ELSE skip_normal_string(bytes, idx + 1)

(* The number of '#' matched from j, at most hashes.                        *)
RECURSIVE MatchHashes(_, _, _, _)
MatchHashes(bytes, j, matched, hashes) ==
    IF matched < hashes /\ j < Len(bytes) /\ At(bytes, j) = "#"
    THEN MatchHashes(bytes, j + 1, matched + 1, hashes)
    ELSE matched

RECURSIVE RawStringBody(_, _, _)
RawStringBody(bytes, idx, hashes) ==
    IF idx >= Len(bytes) THEN Len(bytes)
    ELSE IF At(bytes, idx) = "\""
            /\ MatchHashes(bytes, idx + 1, 0, hashes) = hashes
    THEN idx + 1 + hashes
    ELSE RawStringBody(bytes, idx + 1, hashes)

skip_raw_string(bytes, idx0) ==
    LET idx == RunEnd(bytes, idx0, "hash")
        hashes == idx - idx0
    IN  IF idx >= Len(bytes) \/ At(bytes, idx) # "\"" THEN None
        ELSE Some(RawStringBody(bytes, idx + 1, hashes))

skip_string_literal(bytes, idx) ==
    LET len == Len(bytes)
        b == At(bytes, idx)
        braw == IF b = "b" /\ idx + 1 < len /\ At(bytes, idx + 1) = "r"
                THEN skip_raw_string(bytes, idx + 2) ELSE None
    IN  IF idx >= len THEN None
        ELSE IF b = "\"" THEN Some(skip_normal_string(bytes, idx + 1))
        ELSE IF b = "b" /\ idx + 1 < len /\ At(bytes, idx + 1) = "\""
        THEN Some(skip_normal_string(bytes, idx + 2))
        ELSE IF braw.some THEN braw
        ELSE IF b = "r" THEN skip_raw_string(bytes, idx + 1)
        ELSE None

(* The end of a character literal that does not start like an identifier.   *)
RECURSIVE CharLiteralEnd(_, _)
CharLiteralEnd(bytes, j) ==
    IF j >= Len(bytes) THEN Len(bytes)
    ELSE IF At(bytes, j) = "\\" THEN CharLiteralEnd(bytes, j + 2)
    ELSE IF At(bytes, j) = "'" THEN j + 1
    ELSE CharLiteralEnd(bytes, j + 1)

(* A lexer that goes on from the byte after the quote of a lifetime.         *)
lex_lifetime_or_char_Rescan(bytes, idx) ==
    LET len == Len(bytes)
        j == RunEnd(bytes, idx + 1, "ident_continue")
    IN  IF idx + 1 >= len THEN [token |-> None, next |-> idx + 1]
        ELSE IF is_ident_start(At(bytes, idx + 1))
        THEN IF j < len /\ At(bytes, j) = "'"
             THEN [token |-> None, next |-> j + 1]
             ELSE [token |-> Some(Token("Lifetime", Slice(bytes, idx + 1, j), "",
                                        idx, j)),
                   next |-> idx + 1]
        ELSE [token |-> None, next |-> CharLiteralEnd(bytes, idx + 1)]

(* Returns the token, if one, and the offset to go on from.                 *)
lex_lifetime_or_char(bytes, idx) ==
    LET len == Len(bytes)
        j == RunEnd(bytes, idx + 1, "ident_continue")
    IN  IF idx + 1 >= len THEN [token |-> None, next |-> idx + 1]
        ELSE IF is_ident_start(At(bytes, idx + 1))
        THEN IF j < len /\ At(bytes, j) = "'"
             THEN [token |-> None, next |-> j + 1]
             ELSE [token |-> Some(Token("Lifetime", Slice(bytes, idx + 1, j), "",
                                        idx, j)),
                   next |-> j]
        ELSE [token |-> None, next |-> CharLiteralEnd(bytes, idx + 1)]

(* The body of a line comment, from after the two slashes.                  *)
LineCommentEnd(bytes, idx) == RunEnd(bytes, idx, "not_newline")

(* while i + 1 < len { if "*/" at i { i += 2; break } i += 1 }               *)
RECURSIVE BlockCommentEnd(_, _)
BlockCommentEnd(bytes, i) ==
    IF i + 1 >= Len(bytes) THEN i
    ELSE IF At(bytes, i) = "*" /\ At(bytes, i + 1) = "/" THEN i + 2
    ELSE BlockCommentEnd(bytes, i + 1)

NumberEnd(bytes, idx) == RunEnd(bytes, idx, "number")

(* One iteration of the loop of lex at offset i: the token pushed, if one,   *)
(* and the offset to go on from; str is what skip_string_literal returns    *)
(* at i.                                                                    *)
LexToken(bytes, i, str) ==
    LET b == At(bytes, i)
        two == i + 1 < Len(bytes)
        identEnd == RunEnd(bytes, i + 1, "ident_continue")
        numEnd == NumberEnd(bytes, i + 1)
        skip(next) == [token |-> None, next |-> next]
        push(tok) == [token |-> Some(tok), next |-> tok.end]
    IN  IF is_ascii_whitespace(b) THEN skip(i + 1)
        ELSE IF b = "/" /\ two /\ At(bytes, i + 1) = "/"
        THEN skip(LineCommentEnd(bytes, i + 2))
        ELSE IF b = "/" /\ two /\ At(bytes, i + 1) = "*"
        THEN skip(BlockCommentEnd(bytes, i + 2))
        ELSE IF str.some THEN skip(str.v)
        ELSE IF b = "'" THEN lex_lifetime_or_char(bytes, i)
        ELSE IF is_ident_start(b)
        THEN push(Token("Ident", Slice(bytes, i, identEnd), "", i, identEnd))
        ELSE IF b \in Digits THEN push(Token("Number", <<>>, "", i, numEnd))
        ELSE IF b = ":" /\ two /\ At(bytes, i + 1) = ":"
        THEN push(Token("DoubleColon", <<>>, "", i, i + 2))
        ELSE IF b = "-" /\ two /\ At(bytes, i + 1) = ">"
        THEN push(Token("Arrow", <<>>, "", i, i + 2))
        ELSE push(Token("Punct", <<>>, b, i, i + 1))

LexStep(bytes, i) == LexToken(bytes, i, skip_string_literal(bytes, i))

(* The variables of the loop of lex after an iteration.                     *)
LexAdvance(st, step) ==
    [i |-> step.next, tokens |-> PushSome(st.tokens, step.token)]

RECURSIVE LexLoop(_, _)
LexLoop(bytes, st) ==
    IF st.i >= Len(bytes) THEN st.tokens
    ELSE LexLoop(bytes, LexAdvance(st, LexStep(bytes, st.i)))

lex(text) == LexLoop(text, [i |-> 0, tokens |-> <<>>])

(***************************************************************************)
(* The token-level parsers of src/inlay/mod.rs.  Token indices count from  *)
(* 0 as in the code.                                                        *)
(***************************************************************************)
TokAt(tokens, i) == tokens[i + 1]

is_ident(tok, value) == tok.kind = "Ident" /\ tok.name = value

is_punct(tok, ch) == tok.kind = "Punct" /\ tok.ch = ch

(* if depth > 0 { depth -= 1 }                                               *)
Dec(depth) == IF depth > 0 THEN depth - 1 ELSE depth

(* str::trim *)
RECURSIVE TrimStart(_)
TrimStart(s) ==
    IF s # <<>> /\ is_ascii_whitespace(Head(s)) THEN TrimStart(Tail(s)) ELSE s

RECURSIVE TrimEnd(_)
TrimEnd(s) ==
    IF s # <<>> /\ is_ascii_whitespace(Last(s))
    THEN TrimEnd(SubSeq(s, 1, Len(s) - 1)) ELSE s

Trim(s) == TrimEnd(TrimStart(s))

RECURSIVE find_matching_paren_from(_, _, _)
find_matching_paren_from(tokens, i, depth) ==
    IF i >= Len(tokens) THEN None
    ELSE IF is_punct(TokAt(tokens, i), "(")
    THEN find_matching_paren_from(tokens, i + 1, depth + 1)
    ELSE IF is_punct(TokAt(tokens, i), ")")
    THEN IF depth - 1 = 0 THEN Some(i)
         ELSE find_matching_paren_from(tokens, i + 1, depth - 1)
    ELSE find_matching_paren_from(tokens, i + 1, depth)

find_matching_paren(tokens, idx) == find_matching_paren_from(tokens, idx, 0)

RECURSIVE find_matching_angle_from(_, _, _)
find_matching_angle_from(tokens, i, depth) ==
    IF i >= Len(tokens) THEN None
    ELSE IF is_punct(TokAt(tokens, i), "<")
    THEN find_matching_angle_from(tokens, i + 1, depth + 1)
    ELSE IF is_punct(TokAt(tokens, i), ">")
    THEN IF depth - 1 = 0 THEN Some(i)
         ELSE find_matching_angle_from(tokens, i + 1, depth - 1)
    ELSE find_matching_angle_from(tokens, i + 1, depth)

find_matching_angle(tokens, idx) == find_matching_angle_from(tokens, idx, 0)

RECURSIVE find_matching_angle_backward_from(_, _, _)
find_matching_angle_backward_from(tokens, i, depth) ==
    LET tok == TokAt(tokens, i)
        d == IF is_punct(tok, ">") THEN depth + 1
             ELSE IF is_punct(tok, "<") THEN depth - 1 ELSE depth
    IN  IF is_punct(tok, "<") /\ d = 0 THEN Some(i)
        ELSE IF i = 0 THEN None
        ELSE find_matching_angle_backward_from(tokens, i - 1, d)

find_matching_angle_backward(tokens, idx) ==
    find_matching_angle_backward_from(tokens, idx, 0)

Kw_mut == <<"m", "u", "t">>
Kw_ref == <<"r", "e", "f">>
Kw_const == <<"c", "o", "n", "s", "t">>
Kw_self == <<"s", "e", "l", "f">>
Kw_where == <<"w", "h", "e", "r", "e">>
Kw_fn == <<"f", "n">>
Kw_struct == <<"s", "t", "r", "u", "c", "t">>
Kw_enum == <<"e", "n", "u", "m">>
Kw_trait == <<"t", "r", "a", "i", "t">>
Kw_type == <<"t", "y", "p", "e">>
Kw_let == <<"l", "e", "t">>

RECURSIVE parse_param_name(_)
parse_param_name(tokens) ==
    IF tokens = <<>> THEN None
    ELSE IF Head(tokens).kind = "Ident"
            /\ Head(tokens).name \notin {Kw_mut, Kw_ref, Kw_const}
    THEN Some(Head(tokens).name)
    ELSE parse_param_name(Tail(tokens))

(* One iteration of the loop of parse_params.                               *)
ParamsStep(acc, tok) ==
    LET top == acc.paren = 0 /\ acc.bracket = 0 /\ acc.brace = 0
        pushed == Append(acc.current, tok)
    IN  IF is_punct(tok, "(")
        THEN [acc EXCEPT !.paren = @ + 1, !.current = pushed]
        ELSE IF is_punct(tok, ")")
        THEN [acc EXCEPT !.paren = Dec(@), !.current = pushed]
        ELSE IF is_punct(tok, "[")
        THEN [acc EXCEPT !.bracket = @ + 1, !.current = pushed]
        ELSE IF is_punct(tok, "]")
        THEN [acc EXCEPT !.bracket = Dec(@), !.current = pushed]
        ELSE IF is_punct(tok, "{")
        THEN [acc EXCEPT !.brace = @ + 1, !.current = pushed]
        ELSE IF is_punct(tok, "}")
        THEN [acc EXCEPT !.brace = Dec(@), !.current = pushed]
        ELSE IF is_punct(tok, ",") /\ top
        THEN [acc EXCEPT !.params = PushSome(@, parse_param_name(acc.current)),
                         !.current = <<>>]
        ELSE [acc EXCEPT !.current = pushed]

RECURSIVE ParamsLoop(_, _, _, _)
ParamsLoop(tokens, idx, end, acc) ==
    IF idx >= end THEN acc
    ELSE ParamsLoop(tokens, idx + 1, end, ParamsStep(acc, TokAt(tokens, idx)))

(* if !current.is_empty() { push the last name }                             *)
ParamsFinish(acc) ==
    IF acc.current # <<>>
    THEN PushSome(acc.params, parse_param_name(acc.current))
    ELSE acc.params

parse_params(tokens, start, end) ==
    ParamsFinish(ParamsLoop(tokens, start, end,
                            [params |-> <<>>, current |-> <<>>, paren |-> 0,
                             bracket |-> 0, brace |-> 0]))

GenericParam(name, kind) == [name |-> name, kind |-> kind]

(* for tok in iter: the first identifier after const                        *)
RECURSIVE FirstIdent(_)
FirstIdent(tokens) ==
    IF tokens = <<>> THEN None
    ELSE IF Head(tokens).kind = "Ident"
    THEN Some(GenericParam(Head(tokens).name, "Const"))
    ELSE FirstIdent(Tail(tokens))

RECURSIVE parse_generic_param(_)
parse_generic_param(tokens) ==
    IF tokens = <<>> THEN None
    ELSE LET tok == Head(tokens)
         IN  IF tok.kind = "Lifetime" THEN Some(GenericParam(tok.name, "Lifetime"))
             ELSE IF is_ident(tok, Kw_const) THEN FirstIdent(Tail(tokens))
             ELSE IF tok.kind = "Ident" THEN Some(GenericParam(tok.name, "Type"))
             ELSE parse_generic_param(Tail(tokens))

(* One iteration of the loop of parse_generic_params.                       *)
GenericParamsStep(acc, tok) ==
    LET top == acc.angle = 0 /\ acc.paren = 0 /\ acc.bracket = 0 /\ acc.brace = 0
        pushed == Append(acc.current, tok)
    IN  IF is_punct(tok, "<")
        THEN [acc EXCEPT !.angle = @ + 1, !.current = pushed]
        ELSE IF is_punct(tok, ">")
        THEN [acc EXCEPT !.angle = Dec(@), !.current = pushed]
        ELSE IF is_punct(tok, "(")
        THEN [acc EXCEPT !.paren = @ + 1, !.current = pushed]
        ELSE IF is_punct(tok, ")")
        THEN [acc EXCEPT !.paren = Dec(@), !.current = pushed]
        ELSE IF is_punct(tok, "[")
        THEN [acc EXCEPT !.bracket = @ + 1, !.current = pushed]
        ELSE IF is_punct(tok, "]")
        THEN [acc EXCEPT !.bracket = Dec(@), !.current = pushed]
        ELSE IF is_punct(tok, "{")
        THEN [acc EXCEPT !.brace = @ + 1, !.current = pushed]
        ELSE IF is_punct(tok, "}")
        THEN [acc EXCEPT !.brace = Dec(@), !.current = pushed]
        ELSE IF is_punct(tok, ",") /\ top
        THEN [acc EXCEPT !.params = PushSome(@, parse_generic_param(acc.current)),
                         !.current = <<>>]
        ELSE [acc EXCEPT !.current = pushed]

RECURSIVE GenericParamsLoop(_, _, _, _)
GenericParamsLoop(tokens, idx, end, acc) ==
    IF idx >= end THEN acc
    ELSE GenericParamsLoop(tokens, idx + 1, end,
                           GenericParamsStep(acc, TokAt(tokens, idx)))

(* if !current.is_empty() { push the last parameter }                        *)
GenericParamsFinish(acc) ==
    IF acc.current # <<>>
    THEN PushSome(acc.params, parse_generic_param(acc.current))
    ELSE acc.params

parse_generic_params(tokens, start, end) ==
    GenericParamsFinish(
        GenericParamsLoop(tokens, start, end,
                          [params |-> <<>>, current |-> <<>>, angle |-> 0,
                           paren |-> 0, bracket |-> 0, brace |-> 0]))

(* parse_generics from the matching '>' on.                                  *)
GenericsUpTo(tokens, idx, end_idx) ==
    IF ~end_idx.some THEN None
    ELSE Some([params |-> parse_generic_params(tokens, idx + 1, end_idx.v),
               next |-> end_idx.v + 1])

(* Some([params, next]) or None *)
parse_generics(tokens, idx) ==
    IF ~is_punct(TokAt(tokens, idx), "<") THEN None
    ELSE GenericsUpTo(tokens, idx, find_matching_angle(tokens, idx))

(* The offset at which the return type ends.                                 *)
RECURSIVE ReturnTypeEnd(_, _, _, _)
ReturnTypeEnd(bytes, tokens, i, d) ==
    IF i >= Len(tokens) THEN Len(bytes)
    ELSE LET tok == TokAt(tokens, i)
             top == d.angle = 0 /\ d.paren = 0 /\ d.bracket = 0
         IN  IF top /\ (is_punct(tok, "{") \/ is_punct(tok, ";")
                        \/ is_ident(tok, Kw_where))
             THEN tok.start
             ELSE ReturnTypeEnd(bytes, tokens, i + 1,
                    IF is_punct(tok, "<") THEN [d EXCEPT !.angle = @ + 1]
                    ELSE IF is_punct(tok, ">") THEN [d EXCEPT !.angle = Dec(@)]
                    ELSE IF is_punct(tok, "(") THEN [d EXCEPT !.paren = @ + 1]
                    ELSE IF is_punct(tok, ")") THEN [d EXCEPT !.paren = Dec(@)]
                    ELSE IF is_punct(tok, "[") THEN [d EXCEPT !.bracket = @ + 1]
                    ELSE IF is_punct(tok, "]") THEN [d EXCEPT !.bracket = Dec(@)]
                    ELSE d)

ReturnTypeSlice(slice) == IF slice = <<>> THEN None ELSE Some(slice)

parse_return_type(bytes, tokens, start) ==
    IF start >= Len(tokens) THEN None
    ELSE IF TokAt(tokens, start).kind # "Arrow" THEN None
    ELSE ReturnTypeSlice(
             Trim(Slice(bytes, TokAt(tokens, start).end,
                        ReturnTypeEnd(bytes, tokens, start + 1,
                                      [angle |-> 0, paren |-> 0, bracket |-> 0]))))

FunctionSig(params, return_type, generics, has_self) ==
    [params |-> params, return_type |-> return_type, generics |-> generics,
     has_self |-> has_self]

(* if let Some((parsed, next_i)) = parse_generics(tokens, i)                 *)
GenericsOr(parsed, i) ==
    IF parsed.some THEN parsed.v ELSE [params |-> <<>>, next |-> i]

(* The generics after the name, if any parse, and the index after them.     *)
GenericsAfterName(tokens, i) ==
    IF i < Len(tokens) /\ is_punct(TokAt(tokens, i), "<")
    THEN GenericsOr(parse_generics(tokens, i), i)
    ELSE [params |-> <<>>, next |-> i]

(* The signature, has_self being whether the first parameter is self.       *)
FnSigOf(params, return_type, generics) ==
    FunctionSig(params, return_type, generics,
                params # <<>> /\ params[1] = Kw_self)

(* parse_fn_def from the matching ')' on.                                    *)
FnDefParams(bytes, tokens, name, g, close_idx) ==
    IF ~close_idx.some THEN None
    ELSE Some([name |-> name,
               sig |-> FnSigOf(parse_params(tokens, g.next + 1, close_idx.v),
                               parse_return_type(bytes, tokens, close_idx.v + 1),
                               g.params),
               next |-> close_idx.v + 1])

(* parse_fn_def after the name and the generics g.                           *)
FnDefAfterName(bytes, tokens, name, g) ==
    IF g.next >= Len(tokens) \/ ~is_punct(TokAt(tokens, g.next), "(") THEN None
    ELSE FnDefParams(bytes, tokens, name, g, find_matching_paren(tokens, g.next))

(* Some([name, sig, next]) or None *)
parse_fn_def(bytes, tokens, idx) ==
    IF idx + 1 >= Len(tokens) THEN None
    ELSE IF TokAt(tokens, idx + 1).kind # "Ident" THEN None
    ELSE FnDefAfterName(bytes, tokens, TokAt(tokens, idx + 1).name,
                        GenericsAfterName(tokens, idx + 2))

(* parse_type_def after the name and the generics g.                         *)
TypeDefAfterName(name, g) ==
    Some([name |-> name, generics |-> g.params, next |-> g.next])

(* Some([name, generics, next]) or None *)
parse_type_def(tokens, idx) ==
    IF idx + 1 >= Len(tokens) THEN None
    ELSE IF TokAt(tokens, idx + 1).kind # "Ident" THEN None
    ELSE TypeDefAfterName(TokAt(tokens, idx + 1).name,
                          GenericsAfterName(tokens, idx + 2))

(***************************************************************************)
(* The workspace index: WorkspaceIndex of src/inlay/mod.rs.  A HashMap is  *)
(* a function whose domain is the set of its keys.                          *)
(***************************************************************************)
MapGet(m, key, default) == IF key \in DOMAIN m THEN m[key] ELSE default

MapPut(m, key, value) ==
    [k \in DOMAIN m \cup {key} |-> IF k = key THEN value ELSE m[k]]

EmptyMap == [k \in {} |-> <<>>]

WorkspaceIndexDefault ==
    [fn_defs |-> EmptyMap, method_defs |-> EmptyMap, generics |-> EmptyMap,
     type_names |-> EmptyMap]

add_fn(index, name, sig) ==
    [index EXCEPT !.fn_defs = MapPut(@, name, Append(MapGet(@, name, <<>>), sig))]

add_method(index, name, sig) ==
    [index EXCEPT
        !.method_defs = MapPut(@, name, Append(MapGet(@, name, <<>>), sig))]

add_generics(index, name, generics) ==
    IF generics = <<>> THEN index
    ELSE [index EXCEPT
            !.generics = MapPut(@, name, Append(MapGet(@, name, <<>>), generics))]

(* A unique_fn that answers with the first signature of several.            *)
unique_fn_First(index, name) ==
    LET items == MapGet(index.fn_defs, name, <<>>)
    IN  IF Len(items) >= 1 THEN Some(items[1]) ELSE None

unique_fn(index, name) ==
    LET items == MapGet(index.fn_defs, name, <<>>)
    IN  IF Len(items) = 1 THEN Some(items[1]) ELSE None

(* A unique_method that answers with the first of several.                  *)
unique_method_First(index, name) ==
    LET items == MapGet(index.method_defs, name, <<>>)
    IN  IF Len(items) >= 1 THEN Some(items[1]) ELSE None

unique_method(index, name) ==
    LET items == MapGet(index.method_defs, name, <<>>)
    IN  IF Len(items) = 1 THEN Some(items[1]) ELSE None

(* A unique_generics that answers with the last list of several.            *)
unique_generics_Last(index, name) ==
    LET items == MapGet(index.generics, name, <<>>)
    IN  IF Len(items) >= 1 THEN Some(items[Len(items)]) ELSE None

unique_generics(index, name) ==
    LET items == MapGet(index.generics, name, <<>>)
    IN  IF Len(items) = 1 THEN Some(items[1]) ELSE None

is_unique_type(index, name) == MapGet(index.type_names, name, 0) = 1

(* The branch for a parsed fn, recording the method with its self.          *)
AddFnDef_KeepSelf(index, name, sig) ==
    LET withFn == add_generics(add_fn(index, name, sig), name, sig.generics)
    IN  IF sig.has_self
        THEN add_method(withFn, name,
                        FunctionSig(sig.params, sig.return_type,
                                    sig.generics, FALSE))
        ELSE withFn

(* The body of the branch of collect_defs taken for a parsed fn.            *)
AddFnDef(index, name, sig) ==
    LET withFn == add_generics(add_fn(index, name, sig), name, sig.generics)
    IN  IF sig.has_self
        THEN add_method(withFn, name,
                        FunctionSig(Tail(sig.params), sig.return_type,
                                    sig.generics, FALSE))
        ELSE withFn

(* The body of the branch of collect_defs taken for a parsed type.          *)
AddTypeDef(index, name, generics) ==
    [add_generics(index, name, generics) EXCEPT
        !.type_names = MapPut(@, name, MapGet(@, name, 0) + 1)]

(* The branch of collect_defs taken at fn.                                   *)
FnDefStep(index, f, i) ==
    IF f.some
    THEN [index |-> AddFnDef(index, f.v.name, f.v.sig), next |-> f.v.next]
    ELSE [index |-> index, next |-> i + 1]

(* The branch of collect_defs taken at struct, enum, trait and type.        *)
TypeDefStep(index, t, i) ==
    IF t.some
    THEN [index |-> AddTypeDef(index, t.v.name, t.v.generics), next |-> t.v.next]
    ELSE [index |-> index, next |-> i + 1]

(* One iteration of the loop of collect_defs at token i: the index after    *)
(* it and the token to go on from.                                          *)
CollectDefsStep(index, bytes, tokens, i) ==
    IF is_ident(TokAt(tokens, i), Kw_fn)
    THEN FnDefStep(index, parse_fn_def(bytes, tokens, i), i)
    ELSE IF TokAt(tokens, i).kind = "Ident"
            /\ TokAt(tokens, i).name \in {Kw_struct, Kw_enum, Kw_trait, Kw_type}
    THEN TypeDefStep(index, parse_type_def(tokens, i), i)
    ELSE [index |-> index, next |-> i + 1]

(* The loop of collect_defs; st holds its variables, the index and next, i.  *)
RECURSIVE CollectDefsLoop(_, _, _)
CollectDefsLoop(bytes, tokens, st) ==
    IF st.next >= Len(tokens) THEN st.index
    ELSE CollectDefsLoop(bytes, tokens,
                         CollectDefsStep(st.index, bytes, tokens, st.next))

collect_defs(index, bytes, tokens) ==
    CollectDefsLoop(bytes, tokens, [index |-> index, next |-> 0])

add_source(index, text) == collect_defs(index, text, lex(text))

(* index.add_source for each text of a list, in its order.                  *)
RECURSIVE AddSources(_, _)
AddSources(index, texts) ==
    IF texts = <<>> THEN index
    ELSE AddSources(add_source(index, Head(texts)), Tail(texts))

(***************************************************************************)
(* Positions and hints.  The texts of the model are ASCII: a character is  *)
(* one byte and one UTF-16 unit.                                            *)
(***************************************************************************)
Position(line, character) == [line |-> line, character |-> character]

(* A text is a sequence of characters.  Every character is one byte and    *)
(* one UTF-16 unit except these three, which stand for a character of two   *)
(* bytes, one of three bytes, and one of four bytes outside the basic      *)
(* plane.                                                                   *)
Ch_latin == "U+00E9"
Ch_kana == "U+3042"
Ch_astral == "U+1F600"

len_utf8(ch) ==
    IF ch = Ch_latin THEN 2
    ELSE IF ch = Ch_kana THEN 3
    ELSE IF ch = Ch_astral THEN 4
    ELSE 1

len_utf16(ch) == IF ch = Ch_astral THEN 2 ELSE 1

(* text.len(): the bytes of a text                                          *)
RECURSIVE ByteLen(_)
ByteLen(text) ==
    IF text = <<>> THEN 0 ELSE len_utf8(Head(text)) + ByteLen(Tail(text))

(* A step of offset_to_position that keeps the column across a newline.     *)
PositionStep_KeepCol(pos, ch) ==
    Position(IF ch = "\n" THEN pos.line + 1 ELSE pos.line,
             pos.character + len_utf16(ch))

(* The body of the loop of offset_to_position (the counters do not reach    *)
(* the value where saturating_add saturates).                               *)
PositionStep(pos, ch) ==
    IF ch = "\n" THEN Position(pos.line + 1, 0)
    ELSE Position(pos.line, pos.character + len_utf16(ch))

(* The loop over text.char_indices(): k is the next character, idx its      *)
(* byte index.                                                              *)
RECURSIVE PositionAfter(_, _, _, _, _)
PositionAfter(text, offset, k, idx, pos) ==
    IF k > Len(text) \/ idx >= offset THEN pos
    ELSE PositionAfter(text, offset, k + 1, idx + len_utf8(text[k]),
                       PositionStep(pos, text[k]))

offset_to_position(text, offset) ==
    IF offset > ByteLen(text) THEN None
    ELSE Some(PositionAfter(text, offset, 1, 0, Position(0, 0)))

(* The loop over line.char_indices().                                       *)
RECURSIVE Utf16Loop(_, _, _, _, _)
Utf16Loop(line, col, k, byte_idx, utf16_units) ==
    IF k > Len(line) THEN ByteLen(line)
    ELSE IF utf16_units >= col THEN byte_idx
    ELSE IF utf16_units + len_utf16(line[k]) > col THEN byte_idx
    ELSE Utf16Loop(line, col, k + 1, byte_idx + len_utf8(line[k]),
                   utf16_units + len_utf16(line[k]))

utf16_col_to_byte_offset(line, col) == Utf16Loop(line, col, 1, 0, 0)

(* text.split('\n'): the lines, one more than there are newlines.           *)
RECURSIVE SplitLines(_, _, _)
SplitLines(text, current, done) ==
    IF text = <<>> THEN Append(done, current)
    ELSE IF Head(text) = "\n"
    THEN SplitLines(Tail(text), <<>>, Append(done, current))
    ELSE SplitLines(Tail(text), Append(current, Head(text)), done)

(* The loop of position_to_offset over the enumerated lines.                *)
RECURSIVE OffsetLoop(_, _, _, _)
OffsetLoop(lines, idx, line_start, position) ==
    IF idx >= Len(lines) THEN None
    ELSE IF idx = position.line
    THEN Some(line_start + utf16_col_to_byte_offset(lines[idx + 1], position.character))
    ELSE OffsetLoop(lines, idx + 1, line_start + ByteLen(lines[idx + 1]) + 1, position)

position_to_offset(text, position) ==
    OffsetLoop(SplitLines(text, <<>>, <<>>), 0, 0, position)

InlayHint(position, label, kind) ==
    [position |-> position, label |-> label, kind |-> kind]

type_hint(position, ty) == InlayHint(position, <<":", " ">> \o ty, "TYPE")

param_hint(position, name) == InlayHint(position, name \o <<":">>, "PARAMETER")

(* A position_le that accepts every position of the line of the bound.      *)
position_le_LineOnly(a, b) == a.line <= b.line

(* -1, 0, 1 for Less, Equal, Greater *)
position_cmp(a, b) ==
    IF a.line < b.line THEN -1
    ELSE IF a.line > b.line THEN 1
    ELSE IF a.character < b.character THEN -1
    ELSE IF a.character > b.character THEN 1
    ELSE 0

position_ge(a, b) ==
    a.line > b.line \/ (a.line = b.line /\ a.character >= b.character)

position_le(a, b) ==
    a.line < b.line \/ (a.line = b.line /\ a.character <= b.character)

position_in_range(pos, range) ==
    position_ge(pos, range.start) /\ position_le(pos, range.end)

Keywords ==
    {<<"i", "f">>, <<"w", "h", "i", "l", "e">>, <<"f", "o", "r">>,
     <<"m", "a", "t", "c", "h">>, <<"l", "o", "o", "p">>,
     <<"r", "e", "t", "u", "r", "n">>, <<"f", "n">>,
     <<"s", "t", "r", "u", "c", "t">>, <<"e", "n", "u", "m">>,
     <<"t", "r", "a", "i", "t">>, <<"t", "y", "p", "e">>,
     <<"i", "m", "p", "l">>, <<"p", "u", "b">>, <<"u", "s", "e">>,
     <<"c", "o", "n", "s", "t">>, <<"s", "t", "a", "t", "i", "c">>,
     <<"a", "s", "y", "n", "c">>, <<"a", "w", "a", "i", "t">>,
     <<"m", "o", "v", "e">>, <<"u", "n", "s", "a", "f", "e">>,
     <<"e", "x", "t", "e", "r", "n">>, <<"c", "r", "a", "t", "e">>,
     <<"s", "u", "p", "e", "r">>, <<"s", "e", "l", "f">>}

is_keyword(name) == name \in Keywords

(***************************************************************************)
(* The call collector.                                                      *)
(***************************************************************************)
NoDepth == [paren |-> 0, bracket |-> 0, brace |-> 0, angle |-> 0]

AtTop(d) == d.paren = 0 /\ d.bracket = 0 /\ d.brace = 0 /\ d.angle = 0

(* The depths after a token, as parse_arg_starts counts them.               *)
DepthAfter(d, tok) ==
    IF is_punct(tok, "(") THEN [d EXCEPT !.paren = @ + 1]
    ELSE IF is_punct(tok, ")") THEN [d EXCEPT !.paren = Dec(@)]
    ELSE IF is_punct(tok, "[") THEN [d EXCEPT !.bracket = @ + 1]
    ELSE IF is_punct(tok, "]") THEN [d EXCEPT !.bracket = Dec(@)]
    ELSE IF is_punct(tok, "{") THEN [d EXCEPT !.brace = @ + 1]
    ELSE IF is_punct(tok, "}") THEN [d EXCEPT !.brace = Dec(@)]
    ELSE IF is_punct(tok, "<") THEN [d EXCEPT !.angle = @ + 1]
    ELSE IF is_punct(tok, ">") THEN [d EXCEPT !.angle = Dec(@)]
    ELSE d

(* One iteration of the loop of parse_arg_starts.                           *)
ArgStartsStep(acc, tok) ==
    LET d == DepthAfter(acc.depth, tok)
    IN  IF is_punct(tok, ",") /\ AtTop(acc.depth)
        THEN [acc EXCEPT !.args = PushSome(@, acc.arg_start), !.arg_start = None]
        ELSE IF AtTop(d) /\ ~acc.arg_start.some
        THEN [acc EXCEPT !.depth = d, !.arg_start = Some(tok.start)]
        ELSE [acc EXCEPT !.depth = d]

RECURSIVE ArgStartsLoop(_, _, _, _)
ArgStartsLoop(tokens, idx, end, acc) ==
    IF idx >= end THEN acc
    ELSE ArgStartsLoop(tokens, idx + 1, end, ArgStartsStep(acc, TokAt(tokens, idx)))

(* if let Some(start) = arg_start { args.push(start) }                       *)
ArgStartsFinish(acc) == PushSome(acc.args, acc.arg_start)

parse_arg_starts(tokens, start, end) ==
    ArgStartsFinish(ArgStartsLoop(tokens, start, end,
                        [args |-> <<>>, arg_start |-> None, depth |-> NoDepth]))

parse_generic_arg_starts(tokens, start, end) ==
    ArgStartsFinish(ArgStartsLoop(tokens, start, end,
                        [args |-> <<>>, arg_start |-> None, depth |-> NoDepth]))

DeclKeywords ==
    {<<"f", "n">>, <<"s", "t", "r", "u", "c", "t">>, <<"e", "n", "u", "m">>,
     <<"t", "r", "a", "i", "t">>, <<"t", "y", "p", "e">>,
     <<"i", "m", "p", "l">>}

(* The name and the kind, from the index j of the token before the '(',      *)
(* the generic arguments and the '::' already stepped over.                  *)
CallNameAt(tokens, j) ==
    LET tok == TokAt(tokens, j)
        prev == TokAt(tokens, j - 1)
    IN  IF tok.kind # "Ident" THEN None
        ELSE IF is_keyword(tok.name) THEN None
        ELSE IF j > 0 /\ prev.kind = "Ident" /\ prev.name \in DeclKeywords THEN None
        ELSE IF j > 0 /\ is_punct(prev, "!") THEN None
        ELSE Some([name |-> tok.name,
                   kind |-> IF j > 0 /\ is_punct(prev, ".")
                            THEN "Method" ELSE "Function"])

(* The index after stepping back over a '::', or None at the first token.    *)
SkipDoubleColon(tokens, j) ==
    IF TokAt(tokens, j).kind = "DoubleColon"
    THEN IF j = 0 THEN None ELSE Some(j - 1)
    ELSE Some(j)

(* The name at j, when stepping back did not run off the first token.        *)
CallNameFrom(tokens, j) == IF j.some THEN CallNameAt(tokens, j.v) ELSE None

(* detect_call_name past the generic arguments that end before the '('.      *)
CallNameBeforeAngle(tokens, back) ==
    IF ~back.some \/ back.v = 0 THEN None
    ELSE CallNameFrom(tokens, SkipDoubleColon(tokens, back.v - 1))

detect_call_name(tokens, idx) ==
    IF idx = 0 THEN None
    ELSE IF is_punct(TokAt(tokens, idx - 1), ">")
    THEN CallNameBeforeAngle(tokens, find_matching_angle_backward(tokens, idx - 1))
    ELSE CallNameFrom(tokens, SkipDoubleColon(tokens, idx - 1))

Call(name, kind, arg_starts, close_paren) ==
    [name |-> name, kind |-> kind, arg_starts |-> arg_starts,
     close_paren |-> close_paren]

(* if let Some(close_idx) = find_matching_paren(&tokens, i)                  *)
CallClosed(tokens, i, named, close_idx) ==
    IF close_idx.some
    THEN [call |-> Some(Call(named.name, named.kind,
                             parse_arg_starts(tokens, i + 1, close_idx.v),
                             TokAt(tokens, close_idx.v).start)),
          next |-> close_idx.v]
    ELSE [call |-> None, next |-> i + 1]

(* if let Some((name, kind)) = detect_call_name(&tokens, i)                  *)
CallNamed(tokens, i, named) ==
    IF named.some
    THEN CallClosed(tokens, i, named.v, find_matching_paren(tokens, i))
    ELSE [call |-> None, next |-> i + 1]

(* One iteration of the loop of collect_calls at token i: the call pushed,  *)
(* if one, and the token to go on from.                                     *)
CollectCallsStep(tokens, i) ==
    IF is_punct(TokAt(tokens, i), "(")
    THEN CallNamed(tokens, i, detect_call_name(tokens, i))
    ELSE [call |-> None, next |-> i + 1]

(* The variables of the loop of collect_calls after an iteration.           *)
CallsAdvance(st, step) ==
    [i |-> step.next, calls |-> PushSome(st.calls, step.call)]

RECURSIVE CollectCallsLoop(_, _)
CollectCallsLoop(tokens, st) ==
    IF st.i >= Len(tokens) THEN st.calls
    ELSE CollectCallsLoop(tokens, CallsAdvance(st, CollectCallsStep(tokens, st.i)))

collect_calls(text) == CollectCallsLoop(lex(text), [i |-> 0, calls |-> <<>>])

(* An is_chained_call that looks for the '.' only.                          *)
is_chained_call_DotOnly(bytes, close_paren) ==
    LET i == RunEnd(bytes, close_paren + 1, "whitespace")
    IN  i < Len(bytes) /\ At(bytes, i) = "."

is_chained_call(bytes, close_paren) ==
    LET len == Len(bytes)
        i == RunEnd(bytes, close_paren + 1, "whitespace")
        k == RunEnd(bytes, i + 1, "whitespace")
    IN  IF i < len /\ At(bytes, i) = "." THEN TRUE
        ELSE IF i < len /\ At(bytes, i) = "?"
        THEN k < len /\ At(bytes, k) = "."
        ELSE FALSE

(***************************************************************************)
(* Type inference for the right-hand side of a let.                         *)
(***************************************************************************)
starts_with(s, prefix) == IsPrefix(prefix, s)

Ty_bool == <<"b", "o", "o", "l">>
Ty_char == <<"c", "h", "a", "r">>
Ty_bytes == <<"&", "[", "u", "8", "]">>
Ty_str == <<"&", "s", "t", "r">>
Ty_f64 == <<"f", "6", "4">>
Ty_i32 == <<"i", "3", "2">>
Lit_true == <<"t", "r", "u", "e">>
Lit_false == <<"f", "a", "l", "s", "e">>

NumberSuffixes ==
    {<<"u", "8">>, <<"u", "1", "6">>, <<"u", "3", "2">>, <<"u", "6", "4">>,
     <<"u", "1", "2", "8">>, <<"u", "s", "i", "z", "e">>, <<"i", "8">>,
     <<"i", "1", "6">>, <<"i", "3", "2">>, <<"i", "6", "4">>,
     <<"i", "1", "2", "8">>, <<"i", "s", "i", "z", "e">>, <<"f", "3", "2">>,
     <<"f", "6", "4">>}

infer_string_literal(text) ==
    IF starts_with(text, <<"b", "\"">>) \/ starts_with(text, <<"b", "r", "\"">>)
       \/ starts_with(text, <<"b", "r", "#">>)
    THEN Some(Ty_bytes)
    ELSE IF starts_with(text, <<"\"">>) \/ starts_with(text, <<"r", "\"">>)
            \/ starts_with(text, <<"r", "#">>)
    THEN Some(Ty_str)
    ELSE None

is_char_literal(text) ==
    Len(text) >= 2 /\ text[1] = "'" /\ text[Len(text)] = "'"

(* The scanning loop of infer_number_literal.                               *)
RECURSIVE NumberScan(_, _)
NumberScan(bytes, n) ==
    IF n.i >= Len(bytes) THEN n
    ELSE LET b == At(bytes, n.i)
             signed == n.i + 1 < Len(bytes) /\ At(bytes, n.i + 1) \in {"+", "-"}
         IN  IF b \in Digits \/ b = "_"
             THEN NumberScan(bytes, [n EXCEPT !.has_digit = TRUE, !.i = @ + 1])
             ELSE IF b = "." /\ ~n.has_dot /\ ~n.has_exp
             THEN NumberScan(bytes, [n EXCEPT !.has_dot = TRUE, !.i = @ + 1])
             ELSE IF b \in {"e", "E"} /\ n.has_digit /\ ~n.has_exp
             THEN NumberScan(bytes, [n EXCEPT !.has_exp = TRUE,
                                              !.i = IF signed THEN @ + 2 ELSE @ + 1])
             ELSE n

(* The type of a number with the given suffix.                               *)
NumberSuffixed(n, suffix) ==
    IF suffix \in NumberSuffixes THEN Some(suffix)
    ELSE IF n.has_dot \/ n.has_exp THEN Some(Ty_f64)
    ELSE Some(Ty_i32)

(* infer_number_literal after the scanning loop, n holding its variables.    *)
NumberScanned(s, n) ==
    IF ~n.has_digit THEN None
    ELSE NumberSuffixed(n, Trim(Slice(s, n.i, Len(s))))

(* infer_number_literal after the sign has been stripped.                    *)
NumberUnsigned(s) ==
    IF s = <<>> THEN None
    ELSE NumberScanned(s, NumberScan(s, [i |-> 0, has_digit |-> FALSE,
                                         has_dot |-> FALSE, has_exp |-> FALSE]))

(* if s.starts_with('-') { s = &s[1..] }                                     *)
StripSign(t) == IF starts_with(t, <<"-">>) THEN Tail(t) ELSE t

infer_number_literal(text) == NumberUnsigned(StripSign(Trim(text)))

(* The walk over the segments of a path: the last name and the index after. *)
RECURSIVE PathWalk(_, _, _)
PathWalk(tokens, i, name) ==
    IF i + 1 < Len(tokens) /\ TokAt(tokens, i).kind = "DoubleColon"
       /\ TokAt(tokens, i + 1).kind = "Ident"
    THEN PathWalk(tokens, i + 2, TokAt(tokens, i + 1).name)
    ELSE [name |-> name, i |-> i]

(* infer_struct_literal after the walk w over the path.                      *)
StructLiteralNamed(tokens, w, index) ==
    IF w.i >= Len(tokens) THEN None
    ELSE IF (is_punct(TokAt(tokens, w.i), "{") \/ is_punct(TokAt(tokens, w.i), "("))
            /\ is_unique_type(index, w.name)
    THEN Some(w.name)
    ELSE None

(* infer_struct_literal on the tokens of the expression.                     *)
StructLiteralOf(tokens, index) ==
    IF tokens = <<>> THEN None
    ELSE IF tokens[1].kind # "Ident" THEN None
    ELSE StructLiteralNamed(tokens, PathWalk(tokens, 1, tokens[1].name), index)

infer_struct_literal(expr, index) == StructLiteralOf(lex(expr), index)

(* sig.return_type of an Option<&FunctionSig> *)
ReturnTypeOf(sig) == IF sig.some THEN sig.v.return_type ELSE None

(* if let Some(x) = a { return Some(x) } b                                   *)
OrElse(a, b) == IF a.some THEN a ELSE b

(* The type infer_from_call gives for the last call.                         *)
InferFromCall(call, index) ==
    IF call.kind = "Method"
    THEN ReturnTypeOf(unique_method(index, call.name))
    ELSE OrElse(ReturnTypeOf(unique_fn(index, call.name)),
                IF is_unique_type(index, call.name) THEN Some(call.name) ELSE None)

(* let call = calls.last()?;                                                 *)
InferFromCalls(calls, index) ==
    IF calls = <<>> THEN None ELSE InferFromCall(Last(calls), index)

infer_from_call(expr, index) == InferFromCalls(collect_calls(expr), index)

(* infer_type on the trimmed expression.                                     *)
InferTrimmed(trimmed, index) ==
    IF trimmed = <<>> THEN None
    ELSE IF trimmed = Lit_true \/ trimmed = Lit_false THEN Some(Ty_bool)
    ELSE IF is_char_literal(trimmed) THEN Some(Ty_char)
    ELSE OrElse(infer_string_literal(trimmed),
         OrElse(infer_number_literal(trimmed),
         OrElse(infer_struct_literal(trimmed, index),
                infer_from_call(trimmed, index))))

infer_type(expr, index) == InferTrimmed(Trim(expr), index)

(***************************************************************************)
(* The four passes.                                                         *)
(***************************************************************************)
IsOpening(tok) == is_punct(tok, "(") \/ is_punct(tok, "[") \/ is_punct(tok, "{")

IsClosing(tok) == is_punct(tok, ")") \/ is_punct(tok, "]") \/ is_punct(tok, "}")

PatternKeywords ==
    {<<"i", "f">>, <<"w", "h", "i", "l", "e">>, <<"m", "a", "t", "c", "h">>,
     <<"f", "o", "r">>}

(* The scan from the binding name for ':', '=' and ';' at depth 0.           *)
RECURSIVE LetScan(_, _, _, _)
LetScan(tokens, j, depth, has_type) ==
    IF j >= Len(tokens) THEN [has_type |-> has_type, eq_idx |-> None]
    ELSE LET tok == TokAt(tokens, j)
         IN  IF IsOpening(tok) THEN LetScan(tokens, j + 1, depth + 1, has_type)
             ELSE IF IsClosing(tok)
             THEN LetScan(tokens, j + 1, Dec(depth), has_type)
             ELSE IF is_punct(tok, ":") /\ depth = 0
             THEN LetScan(tokens, j + 1, depth, TRUE)
             ELSE IF is_punct(tok, "=") /\ depth = 0
             THEN [has_type |-> has_type, eq_idx |-> Some(j)]
             ELSE IF is_punct(tok, ";") /\ depth = 0
             THEN [has_type |-> has_type, eq_idx |-> None]
             ELSE LetScan(tokens, j + 1, depth, has_type)

(* The offset at which the initialiser ends.                                 *)
RECURSIVE LetExprEnd(_, _, _, _)
LetExprEnd(bytes, tokens, k, depth) ==
    IF k >= Len(tokens) THEN Len(bytes)
    ELSE LET tok == TokAt(tokens, k)
         IN  IF IsOpening(tok) THEN LetExprEnd(bytes, tokens, k + 1, depth + 1)
             ELSE IF IsClosing(tok)
             THEN LetExprEnd(bytes, tokens, k + 1, Dec(depth))
             ELSE IF is_punct(tok, ";") /\ depth = 0 THEN tok.start
             ELSE LetExprEnd(bytes, tokens, k + 1, depth)

(* The hint pushed when a type is inferred.                                  *)
LetTypeHint(ty, position) ==
    IF ty.some /\ position.some THEN <<type_hint(position.v, ty.v)>> ELSE <<>>

(* A let that does not look at the type annotation.                         *)
LetInit_IgnoreType(bytes, tokens, var_end, scan, index) ==
    IF ~scan.eq_idx.some THEN <<>>
    ELSE LetTypeHint(
             infer_type(Trim(Slice(bytes, TokAt(tokens, scan.eq_idx.v).end,
                                   LetExprEnd(bytes, tokens, scan.eq_idx.v + 1, 0))),
                        index),
             offset_to_position(bytes, var_end))

(* The let from the scan on: no hint with a type annotation or without an   *)
(* initialiser.                                                             *)
LetInit(bytes, tokens, var_end, scan, index) ==
    IF scan.has_type THEN <<>>
    ELSE IF ~scan.eq_idx.some THEN <<>>
    ELSE LetTypeHint(
             infer_type(Trim(Slice(bytes, TokAt(tokens, scan.eq_idx.v).end,
                                   LetExprEnd(bytes, tokens, scan.eq_idx.v + 1, 0))),
                        index),
             offset_to_position(bytes, var_end))

(* The let whose binding is looked for at token j.                           *)
LetBinding(bytes, tokens, j, index) ==
    IF j >= Len(tokens) THEN <<>>
    ELSE IF TokAt(tokens, j).kind # "Ident" THEN <<>>
    ELSE IF TokAt(tokens, j).name = <<"_">> THEN <<>>
    ELSE LetInit(bytes, tokens, TokAt(tokens, j).end,
                 LetScan(tokens, j + 1, 0, FALSE), index)

(* The hints, none or one, of the let at token i.                            *)
LetHints(bytes, tokens, i, index) ==
    IF i > 0 /\ TokAt(tokens, i - 1).kind = "Ident"
       /\ TokAt(tokens, i - 1).name \in PatternKeywords
    THEN <<>>
    ELSE LetBinding(bytes, tokens,
                    IF i + 1 < Len(tokens) /\ is_ident(TokAt(tokens, i + 1), Kw_mut)
                    THEN i + 2 ELSE i + 1,
                    index)

RECURSIVE LocalVarLoop(_, _, _, _, _)
LocalVarLoop(bytes, tokens, i, index, hints) ==
    IF i >= Len(tokens) THEN hints
    ELSE IF is_ident(TokAt(tokens, i), Kw_let)
    THEN LocalVarLoop(bytes, tokens, i + 1, index,
                      hints \o LetHints(bytes, tokens, i, index))
    ELSE LocalVarLoop(bytes, tokens, i + 1, index, hints)

local_var_type_hints(text, index) == LocalVarLoop(text, lex(text), 0, index, <<>>)

Min(a, b) == IF a < b THEN a ELSE b

(* The hints of one call: for idx in 0..count                               *)
RECURSIVE CallArgHints(_, _, _, _, _)
CallArgHints(bytes, params, arg_starts, idx, hints) ==
    IF idx >= Min(Len(params), Len(arg_starts)) THEN hints
    ELSE LET position == offset_to_position(bytes, arg_starts[idx + 1])
             name == params[idx + 1]
         IN  CallArgHints(bytes, params, arg_starts, idx + 1,
                 IF name = <<>> \/ name = <<"_">> \/ ~position.some THEN hints
                 ELSE Append(hints, param_hint(position.v, name)))

(* The signature arg_name_hints looks a call up by.                         *)
SigOfCall(index, call) ==
    IF call.kind = "Function" THEN unique_fn(index, call.name)
    ELSE unique_method(index, call.name)

RECURSIVE ArgNameLoop(_, _, _, _)
ArgNameLoop(bytes, calls, index, hints) ==
    IF calls = <<>> THEN hints
    ELSE LET sig == SigOfCall(index, Head(calls))
         IN  ArgNameLoop(bytes, Tail(calls), index,
                 IF sig.some
                 THEN CallArgHints(bytes, sig.v.params, Head(calls).arg_starts, 0,
                                   hints)
                 ELSE hints)

arg_name_hints(text, index) == ArgNameLoop(text, collect_calls(text), index, <<>>)

GenericFollowers == {"(", "{", ")", ",", ";", ":", ".", "]", ">", "="}

generic_follows(tokens, end_idx) ==
    IF end_idx + 1 >= Len(tokens) THEN TRUE
    ELSE LET tok == TokAt(tokens, end_idx + 1)
         IN  (tok.kind = "Punct" /\ tok.ch \in GenericFollowers)
             \/ tok.kind = "DoubleColon"

TypeDeclKeywords ==
    {<<"s", "t", "r", "u", "c", "t">>, <<"e", "n", "u", "m">>,
     <<"t", "r", "a", "i", "t">>, <<"t", "y", "p", "e">>, <<"f", "n">>}

(* Some([name, end_idx]) or None *)
detect_generic_arg_list(tokens, idx) ==
    IF idx = 0 THEN None
    ELSE LET n == SkipDoubleColon(tokens, idx - 1)
             tok == TokAt(tokens, n.v)
             prev == TokAt(tokens, n.v - 1)
             end_idx == find_matching_angle(tokens, idx)
         IN  IF ~n.some THEN None
             ELSE IF tok.kind # "Ident" THEN None
             ELSE IF is_keyword(tok.name) THEN None
             ELSE IF n.v > 0 /\ prev.kind = "Ident" /\ prev.name \in TypeDeclKeywords
             THEN None
             ELSE IF ~end_idx.some THEN None
             ELSE IF end_idx.v <= idx + 1 THEN None
             ELSE IF ~generic_follows(tokens, end_idx.v) THEN None
             ELSE Some([name |-> tok.name, end_idx |-> end_idx.v])

(* The hints of one generic argument list: for idx in 0..limit              *)
RECURSIVE GenericArgHints(_, _, _, _, _)
GenericArgHints(bytes, generics, args, idx, hints) ==
    IF idx >= Min(Len(generics), Len(args)) THEN hints
    ELSE LET position == offset_to_position(bytes, args[idx + 1])
         IN  GenericArgHints(bytes, generics, args, idx + 1,
                 IF generics[idx + 1].kind = "Const" /\ position.some
                 THEN Append(hints, param_hint(position.v, generics[idx + 1].name))
                 ELSE hints)

(* if let Some(generics) = index.unique_generics(&name)                      *)
GenericListHints(bytes, generics, args) ==
    IF generics.some THEN GenericArgHints(bytes, generics.v, args, 0, <<>>)
    ELSE <<>>

(* if let Some((name, end_idx)) = detect_generic_arg_list(&tokens, i)        *)
GenericListStep(bytes, tokens, i, index, list) ==
    IF list.some
    THEN [hints |-> GenericListHints(bytes, unique_generics(index, list.v.name),
                        parse_generic_arg_starts(tokens, i + 1, list.v.end_idx)),
          next |-> list.v.end_idx + 1]
    ELSE [hints |-> <<>>, next |-> i + 1]

(* One iteration of the loop of const_generic_hints at token i: the hints   *)
(* pushed and the token to go on from.                                      *)
ConstGenericStep(bytes, tokens, i, index) ==
    IF is_punct(TokAt(tokens, i), "<")
    THEN GenericListStep(bytes, tokens, i, index, detect_generic_arg_list(tokens, i))
    ELSE [hints |-> <<>>, next |-> i + 1]

(* The variables of the loop of const_generic_hints after an iteration.     *)
ConstGenericAdvance(st, step) ==
    [i |-> step.next, hints |-> st.hints \o step.hints]

RECURSIVE ConstGenericLoop(_, _, _, _)
ConstGenericLoop(bytes, tokens, index, st) ==
    IF st.i >= Len(tokens) THEN st.hints
    ELSE ConstGenericLoop(bytes, tokens, index,
             ConstGenericAdvance(st, ConstGenericStep(bytes, tokens, st.i, index)))

const_generic_hints(text, index) ==
    ConstGenericLoop(text, lex(text), index, [i |-> 0, hints |-> <<>>])

RECURSIVE ChainedLoop(_, _, _, _)
ChainedLoop(bytes, calls, index, hints) ==
    IF calls = <<>> THEN hints
    ELSE LET call == Head(calls)
             is_chain_segment ==
                 IF call.kind = "Method" THEN TRUE
                 ELSE is_chained_call(bytes, call.close_paren)
             ty == IF call.kind = "Method"
                   THEN ReturnTypeOf(unique_method(index, call.name))
                   ELSE ReturnTypeOf(unique_fn(index, call.name))
             position == offset_to_position(bytes,
                             Min(call.close_paren + 1, Len(bytes)))
         IN  ChainedLoop(bytes, Tail(calls), index,
                 IF is_chain_segment /\ ty.some /\ position.some
                 THEN Append(hints, type_hint(position.v, ty.v))
                 ELSE hints)

chained_expr_type_hints(text, index) ==
    ChainedLoop(text, collect_calls(text), index, <<>>)

(***************************************************************************)
(* inlay_hints: the passes, then retain and a stable sort.                  *)
(***************************************************************************)
RECURSIVE Retain(_, _)
Retain(hints, range) ==
    IF hints = <<>> THEN <<>>
    ELSE IF position_in_range(Head(hints).position, range)
    THEN <<Head(hints)>> \o Retain(Tail(hints), range)
    ELSE Retain(Tail(hints), range)

(* h placed after the hints of sorted that are not greater than it.          *)
RECURSIVE InsertStable(_, _)
InsertStable(sorted, h) ==
    IF sorted = <<>> THEN <<h>>
    ELSE IF position_cmp(Last(sorted).position, h.position) <= 0
    THEN Append(sorted, h)
    ELSE Append(InsertStable(SubSeq(sorted, 1, Len(sorted) - 1), h), Last(sorted))

RECURSIVE SortByPosition(_)
SortByPosition(hints) ==
    IF hints = <<>> THEN <<>>
    ELSE InsertStable(SortByPosition(SubSeq(hints, 1, Len(hints) - 1)), Last(hints))

(***************************************************************************)
(* The state in which no inlay_hints call has been made, and in which lex  *)
(* has not been applied.                                                    *)
(***************************************************************************)
Range(start, end) == [start |-> start, end |-> end]

NoPasses == [locals |-> <<>>, args |-> <<>>, consts |-> <<>>, chains |-> <<>>]

NoRequest == [uri |-> "<none>", range |-> Range(Position(0, 0), Position(0, 0))]

InlayIdle ==
    /\ ipc = "idle" /\ ireq = NoRequest /\ iindex = WorkspaceIndexDefault
    /\ ipass = NoPasses /\ ihints = <<>>

LexIdle == ltext = <<>> /\ ltokens = <<>> /\ lpc = "input"

IndexIdle ==
    /\ mindex = WorkspaceIndexDefault /\ merged = <<>>
    /\ reorder = <<>> /\ rebuilt = None

UriIdle == upath = <<>> /\ uuri = None /\ uback = None /\ upc = "input"

PosIdle ==
    ptext = <<>> /\ poff = 0 /\ ppos = None /\ pback = None /\ ppc = "input"

LetIdle == vtext = <<>> /\ vhints = <<>> /\ vpc = "input"

HoverIdle ==
    /\ hdocs = [u \in Uris |-> None] /\ hreq = None
    /\ hfirst = None /\ hagain = None /\ hpc = "edit"

(***************************************************************************)
(* The diagnostics adapter: src/diagnostics/mod.rs.  The child process is  *)
(* the environment: it cannot be spawned, or it runs and prints lines.  A  *)
(* line is junk (not JSON, not a compiler-message, no spans, no file name) *)
(* or a compiler message for a file, given by the uri of that file.        *)
(***************************************************************************)
JunkLine == "<junk>"

SpawnFails == [spawned |-> FALSE, stdout |-> <<>>]
ChildPrints(lines) == [spawned |-> TRUE, stdout |-> lines]

ChildOutcomes ==
    {SpawnFails, ChildPrints(<<>>), ChildPrints(<<"u1">>),
     ChildPrints(<<JunkLine, "u2", "u2">>)}

RECURSIVE BucketLines(_, _)
BucketLines(lines, map) ==
    IF lines = <<>> THEN map
    ELSE IF Head(lines) = JunkLine THEN BucketLines(Tail(lines), map)
    ELSE BucketLines(Tail(lines),
                     [map EXCEPT ![Head(lines)] = Append(@, "diagnostic")])

(* Err when the command is empty or the child cannot be spawned.            *)
run_check(rt, command, child) ==
    IF command = <<>> THEN [ok |-> FALSE, map |-> [u \in Uris |-> <<>>]]
    ELSE IF ~child.spawned THEN [ok |-> FALSE, map |-> [u \in Uris |-> <<>>]]
    ELSE [ok |-> TRUE, map |-> BucketLines(child.stdout, [u \in Uris |-> <<>>])]

(***************************************************************************)
(* The messages a client may send.                                         *)
(***************************************************************************)
InitParams(uri, path, folders) ==
    [ok |-> TRUE, root_uri |-> uri, root_path |-> path, workspace_folders |-> folders]

NoUri == [present |-> FALSE, path |-> NoRoot]
UriOf(path) == [present |-> TRUE, path |-> path]

InitParamsSet ==
    {InitParams(UriOf("/a"), "/b", <<>>),
     InitParams(UriOf(NoRoot), "/b", <<"/a">>),
     InitParams(NoUri, NoRoot, <<NoRoot, "/a">>),
     InitParams(NoUri, NoRoot, <<>>)}

Settings(checkOnSave, checkCommand) ==
    [stapler |-> Absent, checkOnSave |-> checkOnSave, checkCommand |-> checkCommand]

Nested(settings) ==
    [stapler |-> [t |-> "object", v |-> settings], checkOnSave |-> Absent,
     checkCommand |-> Absent]

SettingsSet ==
    {Settings(JBool(FALSE), Absent), Settings(JBool(TRUE), Absent),
     Settings(JStr("yes"), JStr("cargo")),
     Nested(Settings(JBool(FALSE), JArr(<<JStr("make")>>))),
     Settings(Absent, JArr(<<>>)), Settings(Absent, JArr(<<JNum>>)),
     Settings(Absent, JArr(<<JNum, JStr("make"), JStr("check")>>))}

Requests ==
    {Msg(m, i, p) : m \in {"initialize"}, i \in Ids, p \in InitParamsSet \cup {BadParams}}
    \cup {Msg(m, i, p) : m \in {"textDocument/hover"}, i \in Ids,
                         p \in {BadParams, [ok |-> TRUE, uri |-> "u1"]}}
    \cup {Msg(m, i, BadParams) :
              m \in {"shutdown", "exit", "textDocument/inlayHint"}, i \in Ids}

Notifications ==
    {Msg(m, NoId, BadParams) :
         m \in {"initialized", "exit", "$/cancelRequest", "textDocument/hover",
                "textDocument/didOpen", "textDocument/didChange",
                "textDocument/didClose", "textDocument/didSave",
                "workspace/didChangeConfiguration"}}
    \cup {Msg("textDocument/didOpen", NoId,
              [ok |-> TRUE, uri |-> u, version |-> 1, text |-> "t1"]) : u \in Uris}
    \cup {Msg("textDocument/didChange", NoId,
              [ok |-> TRUE, uri |-> u, version |-> 2, content_changes |-> c]) :
              u \in Uris, c \in {<<>>, <<"t2">>, <<"t2", "t1">>}}
    \cup {Msg("textDocument/didClose", NoId, [ok |-> TRUE, uri |-> u]) : u \in Uris}
    \cup {Msg("textDocument/didSave", NoId, [ok |-> TRUE, uri |-> "u1"])}
    \cup {Msg("workspace/didChangeConfiguration", NoId,
              [ok |-> TRUE, settings |-> s]) : s \in SettingsSet}

(* A message without a method is a response of the client.                  *)
ClientResponses == {Msg(NoMethod, 1, BadParams), Msg(NoMethod, NoId, BadParams)}

Incoming == Requests \cup Notifications \cup ClientResponses

(***************************************************************************)
(* read_message.  What stdin holds next is a frame: the lines read_line    *)
(* yields, one by one, and what is read after the blank line.  When the    *)
(* lines run out read_line returns 0 (end of input).                       *)
(***************************************************************************)
(* A "Content-Length:" line; length is what rest.trim().parse().ok() gives. *)
ContentLength(length) == [kind |-> "content_length", length |-> length]
OtherHeader == [kind |-> "other", length |-> None]
BlankLine == [kind |-> "blank", length |-> None]
(* read_line fails: an I/O error, or bytes that are not UTF-8.              *)
LineIoError == [kind |-> "io_error", length |-> None]

(* The body: JSON, bytes that are not JSON, or fewer bytes than announced.  *)
JsonBody(value) == [kind |-> "json", value |-> value]
InvalidBody == [kind |-> "invalid", value |-> NoMsg]
ShortBody == [kind |-> "short", value |-> NoMsg]

Frame(lines, body) == [lines |-> lines, body |-> body]

ReadResult(tag, value, why) == [tag |-> tag, value |-> value, why |-> why]

(* The loop over the header lines: how it ends and content_length then.     *)
RECURSIVE HeaderLoop(_, _)
HeaderLoop(lines, content_length) ==
    IF lines = <<>> THEN [end |-> "eof", content_length |-> content_length]
    ELSE IF Head(lines).kind = "io_error"
    THEN [end |-> "io_error", content_length |-> content_length]
    ELSE IF Head(lines).kind = "blank"
    THEN [end |-> "break", content_length |-> content_length]
    ELSE IF Head(lines).kind = "content_length"
    THEN HeaderLoop(Tail(lines), Head(lines).length)
    ELSE HeaderLoop(Tail(lines), content_length)

(* read_exact and serde_json::from_slice.                                   *)
ReadBody(body) ==
    IF body.kind = "short" THEN ReadResult("err", NoMsg, "io_error")
    ELSE IF body.kind = "invalid" THEN ReadResult("err", NoMsg, "bad_json")
    ELSE ReadResult("some", body.value, "open")

(* read_message after the header loop.                                      *)
ReadAfterHeader(header, body) ==
    IF header.end = "eof" THEN ReadResult("none", NoMsg, "eof")
    ELSE IF header.end = "io_error" THEN ReadResult("err", NoMsg, "io_error")
    ELSE IF ~header.content_length.some THEN ReadResult("none", NoMsg, "no_length")
    ELSE ReadBody(body)

read_message(frame) == ReadAfterHeader(HeaderLoop(frame.lines, None), frame.body)

SomeLength == Some("n")

GoodFrames ==
    {Frame(<<ContentLength(SomeLength), BlankLine>>, JsonBody(value)) :
         value \in Incoming}
    \cup {Frame(<<OtherHeader, ContentLength(None), ContentLength(SomeLength),
                  BlankLine>>,
                JsonBody(Msg("shutdown", 1, BadParams)))}

BadFrames ==
    {Frame(<<>>, ShortBody),
     Frame(<<OtherHeader>>, ShortBody),
     Frame(<<LineIoError>>, ShortBody),
     Frame(<<ContentLength(SomeLength), LineIoError>>, ShortBody),
     Frame(<<BlankLine>>, JsonBody(Msg("exit", NoId, BadParams))),
     Frame(<<OtherHeader, BlankLine>>, JsonBody(Msg("exit", NoId, BadParams))),
     Frame(<<ContentLength(None), BlankLine>>, JsonBody(Msg("exit", NoId, BadParams))),
     Frame(<<ContentLength(SomeLength), ContentLength(None), BlankLine>>,
           JsonBody(Msg("exit", NoId, BadParams))),
     Frame(<<ContentLength(SomeLength), BlankLine>>, ShortBody),
     Frame(<<ContentLength(SomeLength), BlankLine>>, InvalidBody)}

Frames == GoodFrames \cup BadFrames

(***************************************************************************)
(* run(): the read loop.                                                    *)
(***************************************************************************)
StateOf ==
    [config |-> config, root |-> root, docs |-> docs, shutdown |-> shutdown,
     diag_running |-> diag_running]

(* read_message returned Ok(Some(value)).                                   *)
ReadMessage ==
    /\ mainPc = "read"
    /\ nRead < MaxMsgs
    /\ \E frame \in Frames :
         /\ read_message(frame).tag = "some"
         /\ cur' = read_message(frame).value
         /\ reqLog' = IF cur'.method # NoMethod /\ cur'.id # NoId
                       THEN Append(reqLog, cur'.id) ELSE reqLog
    /\ nRead' = nRead + 1
    /\ mainPc' = "handle"
    /\ UNCHANGED <<config, root, docs, shutdown, diag_running, workers, queue,
                   written, writerDone>>
    /\ UNCHANGED <<readStatus, notServer>>

(* A read loop that goes on reading after an Err of read_message.           *)
ReadEnd_Continue ==
    /\ mainPc = "read"
    /\ \E frame \in Frames :
         /\ read_message(frame).tag # "some"
         /\ readStatus' = read_message(frame).why
         /\ mainPc' = IF read_message(frame).tag = "err" THEN "read" ELSE "drop_tx"
    /\ UNCHANGED <<cur, nRead, reqLog, config, root, docs, shutdown, diag_running,
                   workers, queue, written, writerDone>>
    /\ UNCHANGED notServer

(* read_message returned Ok(None) or Err: the loop breaks.                  *)
ReadEnd ==
    /\ mainPc = "read"
    /\ \E frame \in Frames :
         /\ read_message(frame).tag # "some"
         /\ readStatus' = read_message(frame).why
         /\ mainPc' = "drop_tx"
    /\ UNCHANGED <<cur, nRead, reqLog, config, root, docs, shutdown, diag_running,
                   workers, queue, written, writerDone>>
    /\ UNCHANGED notServer

(* state.handle_message(value), then break or loop.                         *)
HandleMessage ==
    /\ mainPc = "handle"
    /\ LET e == handle_message(StateOf, cur)
       IN  /\ config' = e.st.config
           /\ root' = e.st.root
           /\ docs' = e.st.docs
           /\ shutdown' = e.st.shutdown
           /\ diag_running' = e.st.diag_running
           /\ queue' = queue \o e.out
           /\ workers' = workers \o e.spawned
           /\ mainPc' = IF e.exit THEN "drop_tx" ELSE "read"
    /\ cur' = NoMsg
    /\ UNCHANGED <<nRead, reqLog, written, writerDone>>
    /\ UNCHANGED <<readStatus, notServer>>

(* The Sender handles alive: tx until drop(tx), state.sender until run      *)
(* returns, and the clone each worker closure holds.                        *)
SendersAlive ==
    (IF mainPc \in {"read", "handle", "drop_tx"} THEN 1 ELSE 0)
    + (IF mainPc # "returned" THEN 1 ELSE 0)
    + Len(workers)

(* drop(tx); let _ = writer.join();                                         *)
RunEpilogue ==
    /\ mainPc \in {"drop_tx", "join"}
    /\ IF mainPc = "drop_tx"
       THEN mainPc' = "join"
       ELSE writerDone /\ mainPc' = "returned"
    /\ UNCHANGED <<cur, nRead, reqLog, config, root, docs, shutdown, diag_running,
                   workers, queue, written, writerDone>>
    /\ UNCHANGED <<readStatus, notServer>>

(* writer_loop: recv() yields the next message, blocks while the channel is *)
(* empty and a Sender is alive, and fails once it is empty and none is.     *)
WriterLoop ==
    /\ ~writerDone
    /\ IF queue # <<>>
       THEN /\ written' = Append(written, Head(queue))
            /\ queue' = Tail(queue)
            /\ UNCHANGED writerDone
       ELSE /\ SendersAlive = 0
            /\ writerDone' = TRUE
            /\ UNCHANGED <<queue, written>>
    /\ UNCHANGED <<mainPc, cur, nRead, reqLog, config, root, docs, shutdown,
                   diag_running, workers>>
    /\ UNCHANGED <<readStatus, notServer>>

(***************************************************************************)
(* The worker thread of handle_did_save.                                    *)
(***************************************************************************)
(* The worker storing false as soon as run_check returns, and publishing    *)
(* afterwards.                                                              *)
WorkerRunCheck_StoreFirst(i) ==
    /\ workers[i].pc = "run_check"
    /\ \E child \in ChildOutcomes :
         LET r == run_check(workers[i].root, workers[i].check_command, child)
         IN  workers' = [workers EXCEPT
                 ![i].pc = IF r.ok THEN "publish" ELSE "store",
                 ![i].result = IF r.ok THEN "ok" ELSE "err",
                 ![i].map = r.map]
    /\ diag_running' = FALSE
    /\ UNCHANGED <<mainPc, cur, nRead, reqLog, config, root, docs, shutdown,
                   queue, written, writerDone>>
    /\ UNCHANGED <<readStatus, notServer>>

(* A worker whose closure ends where run_check returns an error.            *)
WorkerRunCheck_ErrEnds(i) ==
    /\ workers[i].pc = "run_check"
    /\ \E child \in ChildOutcomes :
         LET r == run_check(workers[i].root, workers[i].check_command, child)
         IN  workers' = IF r.ok
                        THEN [workers EXCEPT ![i].pc = "publish",
                                             ![i].result = "ok",
                                             ![i].map = r.map]
                        ELSE RemoveAt(workers, i)
    /\ UNCHANGED <<mainPc, cur, nRead, reqLog, config, root, docs, shutdown,
                   diag_running, queue, written, writerDone>>
    /\ UNCHANGED <<readStatus, notServer>>

(* run_check returns; publish_diagnostics begins only on Ok.                *)
WorkerRunCheck(i) ==
    /\ workers[i].pc = "run_check"
    /\ \E child \in ChildOutcomes :
         LET r == run_check(workers[i].root, workers[i].check_command, child)
         IN  workers' = [workers EXCEPT
                 ![i].pc = IF r.ok THEN "publish" ELSE "store",
                 ![i].result = IF r.ok THEN "ok" ELSE "err",
                 ![i].map = r.map]
    /\ UNCHANGED <<mainPc, cur, nRead, reqLog, config, root, docs, shutdown,
                   diag_running, queue, written, writerDone>>
    /\ UNCHANGED <<readStatus, notServer>>

(* One iteration of the loop of publish_diagnostics; open_urls comes from   *)
(* the keys of a HashMap, in any order.                                     *)
WorkerPublish(i) ==
    /\ workers[i].pc = "publish"
    /\ IF workers[i].todo = {}
       THEN /\ workers' = [workers EXCEPT ![i].pc = "store"]
            /\ UNCHANGED queue
       ELSE \E uri \in workers[i].todo :
              LET m == PublishMsg(uri, workers[i].map[uri])
              IN  /\ queue' = Append(queue, m)
                  /\ workers' = [workers EXCEPT
                         ![i].todo = @ \ {uri},
                         ![i].sent = Append(@, m)]
    /\ UNCHANGED <<mainPc, cur, nRead, reqLog, config, root, docs, shutdown,
                   diag_running, written, writerDone>>
    /\ UNCHANGED <<readStatus, notServer>>

(* diag_running.store(false); the closure ends and drops its Sender.        *)
WorkerStore(i) ==
    /\ workers[i].pc = "store"
    /\ diag_running' = FALSE
    /\ workers' = RemoveAt(workers, i)
    /\ UNCHANGED <<mainPc, cur, nRead, reqLog, config, root, docs, shutdown, queue,
                   written, writerDone>>
    /\ UNCHANGED <<readStatus, notServer>>

WorkerStep ==
    \E i \in DOMAIN workers :
        WorkerRunCheck(i) \/ WorkerPublish(i) \/ WorkerStore(i)

Init ==
    /\ mainPc = "read"
    /\ cur = NoMsg
    /\ readStatus = "open"
    /\ nRead = 0
    /\ reqLog = <<>>
    /\ config = ConfigDefault
    /\ root = NoRoot
    /\ docs = DocumentStoreNew
    /\ shutdown = FALSE
    /\ diag_running = FALSE
    /\ workers = <<>>
    /\ queue = <<>>
    /\ written = <<>>
    /\ writerDone = FALSE
    /\ LexIdle
    /\ InlayIdle
    /\ IndexIdle
    /\ UriIdle
    /\ PosIdle
    /\ LetIdle
    /\ HoverIdle

Next ==
    \/ ReadMessage
    \/ ReadEnd
    \/ HandleMessage
    \/ RunEpilogue
    \/ WriterLoop
    \/ WorkerStep

Spec == Init /\ [][Next]_vars

(* The worker is an operating-system thread: while it has a step to take    *)
(* (the child process has ended, a send on the unbounded channel, the       *)
(* store) it is scheduled and takes it.                                     *)
SpecFair == Init /\ [][Next]_vars /\ WF_vars(WorkerStep)

(***************************************************************************)
(* SpecLex: a text is typed byte by byte, after one of a few openings that *)
(* reach the longer literals, and lex is applied to it.                    *)
(***************************************************************************)
LexAlphabet ==
    {" ", "\n", "/", "*", "\"", "\\", "'", "b", "r", "#", "a", "1", ":", "-",
     ">", "."}

LexOpenings ==
    {<<>>, <<"b", "r", "#", "\"">>, <<"r", "#", "#", "\"", "\"">>,
     <<"/", "*", "a">>, <<"x", "'", "a">>, <<"b", "'">>, <<"a", "\"", "\\">>}

ServerIdle ==
    /\ mainPc = "read" /\ cur = NoMsg /\ readStatus = "open"
    /\ nRead = 0 /\ reqLog = <<>>
    /\ config = ConfigDefault /\ root = NoRoot /\ docs = DocumentStoreNew
    /\ shutdown = FALSE /\ diag_running = FALSE /\ workers = <<>>
    /\ queue = <<>> /\ written = <<>> /\ writerDone = FALSE

InitLex ==
    /\ ServerIdle
    /\ ltext \in LexOpenings
    /\ ltokens = <<>>
    /\ lpc = "input"
    /\ InlayIdle
    /\ IndexIdle
    /\ UriIdle
    /\ PosIdle
    /\ LetIdle
    /\ HoverIdle

LexType ==
    /\ \E b \in LexAlphabet, opening \in LexOpenings :
          /\ Len(ltext) < Len(opening) + MaxLexLen
          /\ IsPrefix(opening, ltext)
          /\ ltext' = Append(ltext, b)
    /\ ltokens' = <<>>
    /\ lpc' = "input"
    /\ UNCHANGED notLex

LexRun ==
    /\ lpc = "input"
    /\ ltokens' = lex(ltext)
    /\ lpc' = "lexed"
    /\ UNCHANGED <<ltext, notLex>>

NextLex == LexType \/ LexRun

SpecLex == InitLex /\ [][NextLex]_vars

(***************************************************************************)
(* SpecInlay: inlay_hints over a document store that a client edits.  The  *)
(* document u1 is typed snippet by snippet; u2 is opened with a text of    *)
(* declarations; the workspace root, when there is one, holds files on     *)
(* disk.  A request builds the index, runs the four passes, filters and    *)
(* sorts the hints.                                                         *)
(***************************************************************************)
Src_fn_f_a ==
    <<"f", "n", " ", "f", "(", "a", ")", "{", "}", "\n">>
Src_call_f ==
    <<"f", "(", "1", ")", ";", "\n">>
Src_method_call_f ==
    <<"x", ".", "f", "(", "2", ")", ";">>
Src_let_chain ==
    <<"l", "e", "t", " ", "v", "=", "g", "(", "1", ",", "2", ")", ".", "f",
      "(", "3", ")", ";", "\n">>
Src_let_number ==
    <<"l", "e", "t", " ", "n", "=", "1", ";">>
Src_const_generic ==
    <<"S", ":", ":", "<", "3", ">", ":", ":", "f", "(", "4", ")", ";">>
Src_method_f ==
    <<"f", "n", " ", "f", "(", "s", "e", "l", "f", ",", "b", ")", "-", ">",
      "T", "{", "}">>
Src_fn_g_struct_S ==
    <<"f", "n", " ", "g", "(", "c", ",", "d", ")", "-", ">", "S", "{", "}",
      "s", "t", "r", "u", "c", "t", " ", "S", "<", "c", "o", "n", "s", "t",
      " ", "N", ":", "u", "8", ">", ";">>
Src_fn_f_e ==
    <<"f", "n", " ", "f", "(", "e", ")", "{", "}">>
Src_disk_b ==
    <<"f", "n", " ", "f", "(", "z", ")", "{", "}", "s", "t", "r", "u", "c",
      "t", " ", "S", ";">>
Src_disk_c ==
    <<"f", "n", " ", "g", "(", "c", ")", "{", "}", "f", "n", " ", "f", "(",
      "s", "e", "l", "f", ",", "y", ")", "{", "}">>

TargetSnippets ==
    {Src_fn_f_a, Src_call_f, Src_method_call_f, Src_let_chain, Src_let_number,
     Src_const_generic}

LibTexts == {Src_method_f, Src_fn_g_struct_S, Src_fn_f_e}

WorkspaceRoot == "/w"

PathOfUri == [u \in Uris |-> IF u = "u1" THEN "/w/a.rs" ELSE "/w/b.rs"]

(* The files under WorkspaceRoot: path, extension and contents.             *)
WorkspaceFiles ==
    {[path |-> "/w/b.rs", ext |-> "rs", text |-> Src_disk_b],
     [path |-> "/w/c.rs", ext |-> "rs", text |-> Src_disk_c],
     [path |-> "/w/n.md", ext |-> "md", text |-> Src_fn_f_e]}

Ranges ==
    {Range(Position(0, 0), Position(9, 0)),
     Range(Position(0, 6), Position(1, 5)),
     Range(Position(1, 0), Position(1, 9)),
     Range(Position(1, 0), Position(0, 0))}

(* The orders in which the elements of a set can be visited.                *)
Perms(S) ==
    {f \in [1..Cardinality(S) -> S] : \A a, b \in DOMAIN f : a # b => f[a] # f[b]}

TextsOf(seq) == [k \in DOMAIN seq |-> seq[k].text]

(* An add_workspace that reads every .rs file under root.                   *)
WorkspaceSources_All(open_paths) ==
    {file \in WorkspaceFiles : file.ext = "rs"}

(* add_workspace: the .rs files under root that are not open.               *)
WorkspaceSources(open_paths) ==
    {file \in WorkspaceFiles : file.ext = "rs" /\ file.path \notin open_paths}

add_workspace(index, open_paths, fileOrder) == AddSources(index, TextsOf(fileOrder))

(* if let Some(root) = root { index.add_workspace(root, &open_paths) }       *)
WithWorkspace(index, rt, open_paths, fileOrder) ==
    IF rt # NoRoot THEN add_workspace(index, open_paths, fileOrder) ELSE index

(* WorkspaceIndex::build, visiting the documents and the files in the       *)
(* given orders.                                                            *)
build(d, rt, docOrder, fileOrder) ==
    WithWorkspace(AddSources(WorkspaceIndexDefault,
                             [k \in DOMAIN docOrder |-> d[docOrder[k]].text]),
                  rt, {PathOfUri[u] : u \in open_urls(d)}, fileOrder)

(* The four hints.extend(...) of inlay_hints.                               *)
RunPasses(text, index) ==
    [locals |-> local_var_type_hints(text, index),
     args |-> arg_name_hints(text, index),
     consts |-> const_generic_hints(text, index),
     chains |-> chained_expr_type_hints(text, index)]

AllHints(p) == p.locals \o p.args \o p.consts \o p.chains

(* hints.retain(...); hints.sort_by(...)                                     *)
FilterSort(hints, range) == SortByPosition(Retain(hints, range))

InitInlay ==
    /\ mainPc = "read" /\ cur = NoMsg /\ readStatus = "open"
    /\ nRead = 0 /\ reqLog = <<>>
    /\ config = ConfigDefault /\ docs = DocumentStoreNew
    /\ shutdown = FALSE /\ diag_running = FALSE /\ workers = <<>>
    /\ queue = <<>> /\ written = <<>> /\ writerDone = FALSE
    /\ root \in {NoRoot, WorkspaceRoot}
    /\ LexIdle
    /\ InlayIdle
    /\ IndexIdle
    /\ UriIdle
    /\ PosIdle
    /\ LetIdle
    /\ HoverIdle

InlayReset ==
    /\ ipc' = "idle" /\ ireq' = NoRequest /\ iindex' = WorkspaceIndexDefault
    /\ ipass' = NoPasses /\ ihints' = <<>>

InlayFrame ==
    UNCHANGED <<mainPc, cur, readStatus, nRead, reqLog, config, root, shutdown, diag_running,
                workers, queue, written, writerDone, notInlay>>

(* didOpen: u1 opens empty, u2 with a text of declarations.                 *)
InlayDidOpen ==
    /\ \E uri \in Uris :
         /\ ~docs[uri].open
         /\ \E text \in (IF uri = "u1" THEN {<<>>} ELSE LibTexts) :
              docs' = StoreOpen(docs, uri, 1, text)
    /\ InlayReset
    /\ InlayFrame

(* didChange of u1 with the full text: a snippet typed at the end.           *)
InlayDidChange ==
    /\ docs["u1"].open
    /\ docs["u1"].version <= MaxSnippets
    /\ \E snippet \in TargetSnippets :
         docs' = StoreChangeFull(docs, "u1", docs["u1"].version + 1,
                                 docs["u1"].text \o snippet)
    /\ InlayReset
    /\ InlayFrame

InlayDidClose ==
    /\ \E uri \in Uris : docs[uri].open /\ docs' = StoreClose(docs, uri)
    /\ InlayReset
    /\ InlayFrame

(* A call of inlay_hints: docs.get(uri), WorkspaceIndex::build, the four    *)
(* passes, retain and sort_by.  iindex and ipass keep the index and the    *)
(* hints of the passes before retain.                                       *)
InlayRequest ==
    /\ \E uri \in Uris :
         IF docs[uri].open
         THEN \E docOrder \in Perms(open_urls(docs)),
                 fileOrder \in Perms(WorkspaceSources(
                                 {PathOfUri[u] : u \in open_urls(docs)})) :
                /\ iindex' = build(docs, root, docOrder, fileOrder)
                /\ ipass' = RunPasses(docs[uri].text, iindex')
                /\ \E range \in Ranges :
                     /\ ireq' = [uri |-> uri, range |-> range]
                     /\ ihints' = FilterSort(AllHints(ipass'), range)
         ELSE /\ \E range \in Ranges : ireq' = [uri |-> uri, range |-> range]
              /\ iindex' = WorkspaceIndexDefault
              /\ ipass' = NoPasses
              /\ ihints' = <<>>
    /\ ipc' = "done"
    /\ UNCHANGED docs
    /\ InlayFrame

NextInlay ==
    \/ InlayDidOpen
    \/ InlayDidChange
    \/ InlayDidClose
    \/ InlayRequest

SpecInlay == InitInlay /\ [][NextInlay]_vars

(***************************************************************************)
(* SpecIndex: a build merges sources into the index one add_source call at *)
(* a time, in any order and with repetitions.                               *)
(***************************************************************************)
SourcePool == LibTexts \cup {Src_fn_f_a, Src_disk_b, Src_disk_c}

InitIndex ==
    /\ ServerIdle /\ LexIdle /\ InlayIdle
    /\ IndexIdle
    /\ UriIdle
    /\ PosIdle
    /\ LetIdle
    /\ HoverIdle

(* index.add_source(text)                                                    *)
IndexAddSource ==
    /\ ~rebuilt.some
    /\ Len(merged) < MaxSources
    /\ \E text \in SourcePool :
         /\ mindex' = add_source(mindex, text)
         /\ merged' = Append(merged, text)
    /\ UNCHANGED <<reorder, rebuilt, notIndex>>

(* A second WorkspaceIndex::build over the same sources: docs.iter() and    *)
(* read_dir yield them in an order of their own.                            *)
IndexBuildAgain ==
    /\ ~rebuilt.some
    /\ \E order \in Perms(DOMAIN merged) :
         /\ reorder' = [k \in DOMAIN merged |-> merged[order[k]]]
         /\ rebuilt' = Some(AddSources(WorkspaceIndexDefault, reorder'))
    /\ UNCHANGED <<mindex, merged, notIndex>>

NextIndex == IndexAddSource \/ IndexBuildAgain

SpecIndex == InitIndex /\ [][NextIndex]_vars

(***************************************************************************)
(* Uris and paths: src/doc/uri.rs, as built for a target that is not       *)
(* Windows (cfg!(windows) is false).  A uri and a path are sequences of    *)
(* bytes, each a number below 256.                                          *)
(***************************************************************************)
Ascii ==
    <<" ", "!", "\"", "#", "$", "%", "&", "'", "(", ")", "*", "+", ",", "-",
      ".", "/", "0", "1", "2", "3", "4", "5", "6", "7", "8", "9", ":", ";",
      "<", "=", ">", "?", "@", "A", "B", "C", "D", "E", "F", "G", "H", "I",
      "J", "K", "L", "M", "N", "O", "P", "Q", "R", "S", "T", "U", "V", "W",
      "X", "Y", "Z", "[", "\\", "]", "^", "_", "grave", "a", "b", "c", "d", "e",
      "f", "g", "h", "i", "j", "k", "l", "m", "n", "o", "p", "q", "r", "s",
      "t", "u", "v", "w", "x", "y", "z", "{", "|", "}", "~">>

(* The byte of an ASCII character; "grave" stands for the grave accent.      *)
B(ch) == 31 + (CHOOSE i \in DOMAIN Ascii : Ascii[i] = ch)

Bytes(chars) == [i \in DOMAIN chars |-> B(chars[i])]

InRange(b, lo, hi) == B(lo) <= b /\ b <= B(hi)

is_ascii_alphanumeric(b) ==
    InRange(b, "0", "9") \/ InRange(b, "a", "z") \/ InRange(b, "A", "Z")

is_unreserved(b) ==
    is_ascii_alphanumeric(b) \/ b \in {B("-"), B("."), B("_"), B("~")}

to_hex(value) ==
    IF 0 <= value /\ value <= 9 THEN B("0") + value
    ELSE IF 10 <= value /\ value <= 15 THEN B("A") + (value - 10)
    ELSE B("0")

from_hex(b) ==
    IF InRange(b, "0", "9") THEN Some(b - B("0"))
    ELSE IF InRange(b, "a", "f") THEN Some(b - B("a") + 10)
    ELSE IF InRange(b, "A", "F") THEN Some(b - B("A") + 10)
    ELSE None

RECURSIVE percent_encode(_)
percent_encode(input) ==
    IF input = <<>> THEN <<>>
    ELSE (IF is_unreserved(Head(input)) \/ Head(input) = B("/")
          THEN <<Head(input)>>
          ELSE <<B("%"), to_hex(Head(input) \div 16), to_hex(Head(input) % 16)>>)
         \o percent_encode(Tail(input))

(* String::from_utf8: the bytes from i on are well-formed UTF-8.            *)
IsCont(bytes, i, lo, hi) == i < Len(bytes) /\ lo <= At(bytes, i) /\ At(bytes, i) <= hi

RECURSIVE ValidUtf8(_, _)
ValidUtf8(bytes, i) ==
    IF i >= Len(bytes) THEN TRUE
    ELSE LET b == At(bytes, i)
         IN  IF b < 128 THEN ValidUtf8(bytes, i + 1)
             ELSE IF 194 <= b /\ b <= 223
             THEN IsCont(bytes, i + 1, 128, 191) /\ ValidUtf8(bytes, i + 2)
             ELSE IF 224 <= b /\ b <= 239
             THEN /\ IsCont(bytes, i + 1,
                            IF b = 224 THEN 160 ELSE 128,
                            IF b = 237 THEN 159 ELSE 191)
                  /\ IsCont(bytes, i + 2, 128, 191)
                  /\ ValidUtf8(bytes, i + 3)
             ELSE IF 240 <= b /\ b <= 244
             THEN /\ IsCont(bytes, i + 1,
                            IF b = 240 THEN 144 ELSE 128,
                            IF b = 244 THEN 143 ELSE 191)
                  /\ IsCont(bytes, i + 2, 128, 191)
                  /\ IsCont(bytes, i + 3, 128, 191)
                  /\ ValidUtf8(bytes, i + 4)
             ELSE FALSE

(* The loop of percent_decode: the bytes pushed, or None.                   *)
RECURSIVE DecodeLoop(_, _, _)
DecodeLoop(bytes, i, out) ==
    IF i >= Len(bytes) THEN Some(out)
    ELSE IF At(bytes, i) = B("%")
    THEN IF i + 2 >= Len(bytes) THEN None
         ELSE IF ~from_hex(At(bytes, i + 1)).some THEN None
         ELSE IF ~from_hex(At(bytes, i + 2)).some THEN None
         ELSE DecodeLoop(bytes, i + 3,
                         Append(out, (from_hex(At(bytes, i + 1)).v * 16
                                      + from_hex(At(bytes, i + 2)).v) % 256))
    ELSE DecodeLoop(bytes, i + 1, Append(out, At(bytes, i)))

FromUtf8(out) == IF out.some /\ ValidUtf8(out.v, 0) THEN out ELSE None

percent_decode(input) == FromUtf8(DecodeLoop(input, 0, <<>>))

FileScheme == Bytes(<<"f", "i", "l", "e", ":", "/", "/">>)

Localhost == Bytes(<<"l", "o", "c", "a", "l", "h", "o", "s", "t">>)

to_ascii_lowercase(b) == IF InRange(b, "A", "Z") THEN b + 32 ELSE b

eq_ignore_ascii_case(a, b) ==
    /\ Len(a) = Len(b)
    /\ \A i \in DOMAIN a : to_ascii_lowercase(a[i]) = to_ascii_lowercase(b[i])

(* The offset of the first '/' of rest, Len(rest) when it has none.         *)
FirstSlash(rest) ==
    IF \E i \in DOMAIN rest : rest[i] = B("/")
    THEN (CHOOSE i \in DOMAIN rest :
              rest[i] = B("/") /\ \A j \in 1..(i - 1) : rest[j] # B("/")) - 1
    ELSE Len(rest)

(* rest.splitn(2, '/'): the authority and the path with its '/' put back.   *)
SplitAuthority(rest) ==
    IF rest # <<>> /\ rest[1] = B("/")
    THEN [authority |-> <<>>, path_part |-> rest]
    ELSE [authority |-> Slice(rest, 0, FirstSlash(rest)),
          path_part |-> IF FirstSlash(rest) < Len(rest)
                        THEN Slice(rest, FirstSlash(rest), Len(rest))
                        ELSE <<B("/")>>]

Combined(parts) ==
    IF parts.authority = <<>> \/ eq_ignore_ascii_case(parts.authority, Localhost)
    THEN parts.path_part
    ELSE <<B("/"), B("/")>> \o parts.authority \o parts.path_part

uri_to_path(raw) ==
    IF ~IsPrefix(FileScheme, raw) THEN None
    ELSE percent_decode(Combined(SplitAuthority(Slice(raw, Len(FileScheme), Len(raw)))))

(* Uri::from_str on what path_to_uri writes after "file:///": the bytes of  *)
(* a path, with every '%' followed by two hex digits.                       *)
RECURSIVE IsUriPath(_, _)
IsUriPath(bytes, i) ==
    IF i >= Len(bytes) THEN TRUE
    ELSE IF At(bytes, i) = B("%")
    THEN /\ i + 2 < Len(bytes)
         /\ from_hex(At(bytes, i + 1)).some
         /\ from_hex(At(bytes, i + 2)).some
         /\ IsUriPath(bytes, i + 3)
    ELSE /\ \/ is_unreserved(At(bytes, i))
            \/ At(bytes, i) \in {B("/"), B(":"), B("@"), B("!"), B("$"), B("&"),
                                 B("'"), B("("), B(")"), B("*"), B("+"), B(","),
                                 B(";"), B("=")}
         /\ IsUriPath(bytes, i + 1)

UriFromStr(uri_str) ==
    IF IsUriPath(uri_str, Len(FileScheme)) THEN Some(uri_str) ELSE None

(* path.is_absolute() where the separator is '/'.                           *)
is_absolute(path) == path # <<>> /\ path[1] = B("/")

(* path_str.replace('\\', "/")                                              *)
ReplaceBackslash(path) ==
    [i \in DOMAIN path |-> IF path[i] = B("\\") THEN B("/") ELSE path[i]]

Normalized(path) ==
    IF is_absolute(ReplaceBackslash(path)) THEN ReplaceBackslash(path)
    ELSE <<B("/")>> \o ReplaceBackslash(path)

(* encoded.strip_prefix('/').unwrap_or(&encoded)                            *)
StripSlash(encoded) ==
    IF encoded # <<>> /\ encoded[1] = B("/") THEN Tail(encoded) ELSE encoded

path_to_uri(path) ==
    IF ~is_absolute(path) THEN None
    ELSE UriFromStr(FileScheme \o <<B("/")>>
                    \o StripSlash(percent_encode(Normalized(path))))

(* Path::components of an absolute path: the names between the '/', the    *)
(* empty ones and "." left out.  Two paths are equal when these are.        *)
RECURSIVE Components(_, _, _)
Components(path, current, done) ==
    IF path = <<>>
    THEN IF current \in {<<>>, <<B(".")>>} THEN done ELSE Append(done, current)
    ELSE IF Head(path) = B("/")
    THEN Components(Tail(path), <<>>,
                    IF current \in {<<>>, <<B(".")>>} THEN done
                    ELSE Append(done, current))
    ELSE Components(Tail(path), Append(current, Head(path)), done)

PathEq(p, q) ==
    /\ is_absolute(p) = is_absolute(q)
    /\ Components(p, <<>>, <<>>) = Components(q, <<>>, <<>>)

(***************************************************************************)
(* SpecUri: a path is typed byte by byte, then turned into a uri and back. *)
(***************************************************************************)
PathAlphabet ==
    {B("/"), B("a"), B(" "), B("%"), B("\\"), B("."), B("~"), B("2")}

InitUri ==
    /\ ServerIdle /\ LexIdle /\ InlayIdle /\ IndexIdle /\ PosIdle /\ LetIdle
    /\ HoverIdle
    /\ upath \in {<<>>, <<B("/")>>}
    /\ uuri = None /\ uback = None /\ upc = "input"

UriType ==
    /\ upc = "input"
    /\ Len(upath) < MaxPathLen
    /\ \E b \in PathAlphabet : upath' = Append(upath, b)
    /\ UNCHANGED <<uuri, uback, upc, notUri>>

(* path_to_uri(path), and uri_to_path of the uri when there is one.         *)
UriConvert ==
    /\ upc = "input"
    /\ uuri' = path_to_uri(upath)
    /\ uback' = IF uuri'.some THEN uri_to_path(uuri'.v) ELSE None
    /\ upc' = "converted"
    /\ UNCHANGED <<upath, notUri>>

NextUri == UriType \/ UriConvert

SpecUri == InitUri /\ [][NextUri]_vars

(***************************************************************************)
(* SpecPos: a text is typed character by character, then a byte offset is  *)
(* turned into a position and back.                                        *)
(***************************************************************************)
TextAlphabet == {"a", "\n", "\r", Ch_latin, Ch_kana, Ch_astral}

InitPos ==
    /\ ServerIdle /\ LexIdle /\ InlayIdle /\ IndexIdle /\ UriIdle
    /\ PosIdle
    /\ LetIdle
    /\ HoverIdle

PosType ==
    /\ ppc = "input"
    /\ Len(ptext) < MaxTextLen
    /\ \E ch \in TextAlphabet : ptext' = Append(ptext, ch)
    /\ UNCHANGED <<poff, ppos, pback, ppc, notPos>>

(* offset_to_position(text, offset), and position_to_offset of the position *)
(* when there is one; the offset is any, past the end included.             *)
PosConvert ==
    /\ ppc = "input"
    /\ \E offset \in 0..(ByteLen(ptext) + 1) :
         /\ poff' = offset
         /\ ppos' = offset_to_position(ptext, offset)
    /\ pback' = IF ppos'.some THEN position_to_offset(ptext, ppos'.v) ELSE None
    /\ ppc' = "converted"
    /\ UNCHANGED <<ptext, notPos>>

NextPos == PosType \/ PosConvert

SpecPos == InitPos /\ [][NextPos]_vars

(***************************************************************************)
(* SpecLet: a text is typed piece by piece, then local_var_type_hints runs *)
(* on it with an empty index.                                              *)
(***************************************************************************)
LetPieces ==
    {<<"l", "e", "t", " ">>,
     <<"l", "e", "t", " ", "x">>,
     <<"l", "e", "t", " ", "m", "u", "t", " ", "y">>,
     <<"l", "e", "t", " ", "_">>,
     <<"i", "f", " ">>,
     <<":", "u", "8">>,
     <<"=", "1", ";", "\n">>,
     <<";">>,
     <<"(", ":">>,
     <<")">>}

InitLet ==
    /\ ServerIdle /\ LexIdle /\ InlayIdle /\ IndexIdle /\ UriIdle /\ PosIdle
    /\ LetIdle
    /\ HoverIdle

LetType ==
    /\ vpc = "input"
    /\ Len(vtext) < MaxPieces
    /\ \E piece \in LetPieces : vtext' = Append(vtext, piece)
    /\ UNCHANGED <<vhints, vpc, notLet>>

(* The text the pieces typed so far make.                                   *)
RECURSIVE Concat(_)
Concat(pieces) ==
    IF pieces = <<>> THEN <<>> ELSE Head(pieces) \o Concat(Tail(pieces))

(* local_var_type_hints(text, &index)                                       *)
LetPass ==
    /\ vpc = "input"
    /\ vhints' = local_var_type_hints(Concat(vtext), WorkspaceIndexDefault)
    /\ vpc' = "done"
    /\ UNCHANGED <<vtext, notLet>>

NextLet == LetType \/ LetPass

SpecLet == InitLet /\ [][NextLet]_vars

(***************************************************************************)
(* SpecArgs: a text of calls is typed piece by piece, then arg_name_hints  *)
(* runs on it with the index of ArgLib.                                    *)
(***************************************************************************)
ArgLib ==
    <<"f", "n", " ", "f", "(", "a", ",", "b", ")",
      "{", "}", "f", "n", " ", "g", "(", "_", ")", "{", "}", "f", "n", " ", "m", "(", "s", "e", "l", "f", ",", "d", ")", "{", "}">>

ArgIndex == add_source(WorkspaceIndexDefault, ArgLib)

ArgPieces ==
    {<<"f", "(">>,
     <<"h", "(">>,
     <<"g", "(", "1", ")">>,
     <<"x", ".", "m", "(", "1", ")">>,
     <<"1", ",">>,
     <<"1">>,
     <<"(", "2", ")">>,
     <<"[", "3", "]">>,
     <<")">>,
     <<";">>}

ArgType ==
    /\ vpc = "input"
    /\ Len(vtext) < MaxPieces
    /\ \E piece \in ArgPieces : vtext' = Append(vtext, piece)
    /\ UNCHANGED <<vhints, vpc, notLet>>

(* arg_name_hints(text, &index)                                             *)
ArgPass ==
    /\ vpc = "input"
    /\ vhints' = arg_name_hints(Concat(vtext), ArgIndex)
    /\ vpc' = "done"
    /\ UNCHANGED <<vtext, notLet>>

NextArgs == ArgType \/ ArgPass

SpecArgs == InitLet /\ [][NextArgs]_vars

(***************************************************************************)
(* SpecConst: a text of generic argument lists is typed piece by piece,    *)
(* then const_generic_hints runs on it with the index of ConstLib: S and L *)
(* are declared once, D twice.                                             *)
(***************************************************************************)
ConstLib_S_L ==
    <<"s", "t", "r", "u", "c", "t", " ", "S", "<", "T", ",", "c", "o", "n",
      "s", "t", " ", "N", ":", "u", "8", ">", ";", "s", "t", "r", "u", "c",
      "t", " ", "L", "<", "'", "a", ",", "c", "o", "n", "s", "t", " ", "Q",
      ":", "u", "8", ">", ";">>

ConstLib_D ==
    <<"s", "t", "r", "u", "c", "t", " ", "D", "<", "c", "o", "n", "s", "t",
      " ", "K", ":", "u", "8", ">", ";">>

ConstIndex ==
    AddSources(WorkspaceIndexDefault, <<ConstLib_S_L, ConstLib_D, ConstLib_D>>)

ConstPieces ==
    {<<"S", ":", ":", "<">>,
     <<"L", ":", ":", "<">>,
     <<"D", ":", ":", "<">>,
     <<"u", "8", ",">>,
     <<"'", "a", ",">>,
     <<"3", ",">>,
     <<"3">>,
     <<"{", "4", "}">>,
     <<">">>,
     <<";">>}

ConstType ==
    /\ vpc = "input"
    /\ Len(vtext) < MaxPieces
    /\ \E piece \in ConstPieces : vtext' = Append(vtext, piece)
    /\ UNCHANGED <<vhints, vpc, notLet>>

(* const_generic_hints(text, &index)                                        *)
ConstPass ==
    /\ vpc = "input"
    /\ vhints' = const_generic_hints(Concat(vtext), ConstIndex)
    /\ vpc' = "done"
    /\ UNCHANGED <<vtext, notLet>>

NextConst == ConstType \/ ConstPass

SpecConst == InitLet /\ [][NextConst]_vars

(***************************************************************************)
(* The const-generic pass on generic argument lists whose arguments hold   *)
(* comparison operators inside brackets.                                   *)
(***************************************************************************)
AnglePieces ==
    {<<"S", ":", ":", "<", "u", "8", ",">>,
     <<"L", ":", ":", "<", "'", "a", ",">>,
     <<"D", ":", ":", "<">>,
     <<"{", "1", ">", "2", "}">>,
     <<"{", "1", "<", "2", "}">>,
     <<"(", "1", ">", "2", ")">>,
     <<"[", "1", "<", "2", "]">>,
     <<"3">>,
     <<">">>,
     <<";">>}

AngleType ==
    /\ vpc = "input"
    /\ Len(vtext) < MaxPieces
    /\ \E piece \in AnglePieces : vtext' = Append(vtext, piece)
    /\ UNCHANGED <<vhints, vpc, notLet>>

(* const_generic_hints(text, &index)                                        *)
AnglePass ==
    /\ vpc = "input"
    /\ vhints' = const_generic_hints(Concat(vtext), ConstIndex)
    /\ vpc' = "done"
    /\ UNCHANGED <<vtext, notLet>>

NextAngle == AngleType \/ AnglePass

SpecAngle == InitLet /\ [][NextAngle]_vars

(***************************************************************************)
(* The local-variable pass on bindings whose initialiser begins with a     *)
(* literal.                                                                *)
(***************************************************************************)
RhsPieces ==
    {<<"l", "e", "t", " ", "x", "=">>,
     <<"1">>,
     <<"2", ".", "5">>,
     <<"u", "8">>,
     <<"t", "r", "u", "e">>,
     <<"\"", "s", "\"">>,
     <<"'", "c", "'">>,
     <<"+", "2">>,
     <<" ", "a", "s", " ", "u", "8">>,
     <<".", "l", "e", "n", "(", ")">>,
     <<";">>}

RhsType ==
    /\ vpc = "input"
    /\ Len(vtext) < MaxPieces
    /\ \E piece \in RhsPieces : vtext' = Append(vtext, piece)
    /\ UNCHANGED <<vhints, vpc, notLet>>

(* local_var_type_hints(text, &index)                                       *)
RhsPass ==
    /\ vpc = "input"
    /\ vhints' = local_var_type_hints(Concat(vtext), WorkspaceIndexDefault)
    /\ vpc' = "done"
    /\ UNCHANGED <<vtext, notLet>>

NextRhs == RhsType \/ RhsPass

SpecRhs == InitLet /\ [][NextRhs]_vars

(***************************************************************************)
(* add_source on a typed text of function declarations.                    *)
(***************************************************************************)
FnPieces ==
    {<<"f", "n", " ", "f", "(", "a", ",", "b", ")">>,
     <<"f", "n", " ", "g", "(", ")">>,
     <<"f", "n", " ", "m", "(", "&", "s", "e", "l", "f", ",", "m", "u",
       "t", " ", "d", ":", "[", "u", "8", ";", "2", "]", ")">>,
     <<"f", "n", " ", "p", "(", "a", ":", "M", "<", "K", ",", "V", ">",
       ",", "b", ")">>,
     <<"-", ">">>,
     <<" ", "A", "<", "B", ">", " ">>,
     <<"[", "u", "8", ";", "2", "]">>,
     <<"{", "}">>,
     <<";">>,
     <<" ", "w", "h", "e", "r", "e", " ">>}

FnType ==
    /\ vpc = "input"
    /\ Len(vtext) < MaxPieces
    /\ \E piece \in FnPieces : vtext' = Append(vtext, piece)
    /\ UNCHANGED <<vhints, vpc, notLet>>

(* index.add_source(text) on a fresh index                                  *)
FnBuild ==
    /\ vpc = "input"
    /\ mindex' = add_source(WorkspaceIndexDefault, Concat(vtext))
    /\ vpc' = "done"
    /\ UNCHANGED <<vtext, vhints, merged, reorder, rebuilt>>
    /\ UNCHANGED <<serverVars, lexVars, inlayVars, uriVars, posVars, hoverVars>>

NextFn == FnType \/ FnBuild

SpecFn == InitLet /\ [][NextFn]_vars

(***************************************************************************)
(* SpecChain: a text of calls is typed piece by piece, then                *)
(* chained_expr_type_hints runs on it with the index of ChainLib: f        *)
(* returns A, the method m returns B, g returns nothing, h is unknown.     *)
(***************************************************************************)
ChainLib ==
    <<"f", "n", " ", "f", "(", ")", "-", ">", "A", "{", "}", "f", "n", " ",
      "g", "(", ")", "{", "}", "f", "n", " ", "m", "(", "s", "e", "l", "f",
      ")", "-", ">", "B", "{", "}">>

ChainIndex == add_source(WorkspaceIndexDefault, ChainLib)

ChainPieces ==
    {<<"f", "(", ")">>,
     <<"g", "(", ")">>,
     <<"h", "(", ")">>,
     <<"x", ".", "m", "(", ")">>,
     <<"f", "(">>,
     <<")">>,
     <<".">>,
     <<" ">>,
     <<"?">>,
     <<";">>}

ChainType ==
    /\ vpc = "input"
    /\ Len(vtext) < MaxPieces
    /\ \E piece \in ChainPieces : vtext' = Append(vtext, piece)
    /\ UNCHANGED <<vhints, vpc, notLet>>

(* chained_expr_type_hints(text, &index)                                    *)
ChainPass ==
    /\ vpc = "input"
    /\ vhints' = chained_expr_type_hints(Concat(vtext), ChainIndex)
    /\ vpc' = "done"
    /\ UNCHANGED <<vtext, notLet>>

NextChain == ChainType \/ ChainPass

SpecChain == InitLet /\ [][NextChain]_vars

(***************************************************************************)
(* Properties of the transport loop and of the diagnostics pass.           *)
(***************************************************************************)
Out == written \o queue

IsRequest(m) == m.method # NoMethod /\ m.id # NoId

IsSave(m) == m.method = "textDocument/didSave" /\ m.id = NoId /\ m.params.ok

(* The request thread finishes handling cur in this step.                   *)
MainHandles == mainPc = "handle" /\ mainPc' # "handle"

RECURSIVE ResponseIds(_)
ResponseIds(msgs) ==
    IF msgs = <<>> THEN <<>>
    ELSE IF Head(msgs).kind \in {"response", "error"}
    THEN <<Head(msgs).id>> \o ResponseIds(Tail(msgs))
    ELSE ResponseIds(Tail(msgs))

InSeq(x, sq) == \E k \in DOMAIN sq : sq[k] = x

(* C2: at most one diagnostics check is in flight; a check starts only in   *)
(* the handling of a didSave that finds the busy flag clear, and a didSave  *)
(* handled while the flag is set changes nothing: no check starts, nothing  *)
(* is remembered for later, and the running check is left as it is.         *)
C2_OneCheckInFlight ==
    /\ [](Len(workers) <= 1)
    /\ [][ /\ (Len(workers') > Len(workers))
                => (mainPc = "handle" /\ IsSave(cur) /\ ~diag_running)
           /\ (MainHandles /\ IsSave(cur) /\ diag_running)
                => UNCHANGED <<config, root, docs, shutdown, diag_running,
                               workers, queue, written, writerDone>> ]_vars

(* A didSave is being handled while a check is in flight.                   *)
C2_Witness ==
    /\ mainPc = "handle" /\ IsSave(cur)
    /\ diag_running /\ Len(workers) = 1

(* C3 (as claimed): when a check completes, every document open at that     *)
(* moment has had a publishDiagnostics of this check enqueued, carrying the *)
(* diagnostics of the result for it (none: an empty array).                 *)
C3_PublishedForOpenAtCompletion ==
    [][ (diag_running /\ ~diag_running') =>
          \A i \in DOMAIN workers :
              workers[i].pc = "store" =>
                 \A u \in open_urls(docs) :
                     /\ InSeq(PublishMsg(u, workers[i].map[u]), workers[i].sent)
                     /\ InSeq(PublishMsg(u, workers[i].map[u]), Out) ]_vars

(* C4 (as claimed): when the child cannot be spawned, the check still       *)
(* enqueues a publishDiagnostics with an empty array for each document of   *)
(* its open set.                                                            *)
C4_SpawnFailureStillPublishes ==
    [][ (diag_running /\ ~diag_running') =>
          \A i \in DOMAIN workers :
              (workers[i].pc = "store" /\ workers[i].result = "err") =>
                 \A u \in workers[i].open_urls :
                     /\ InSeq(PublishMsg(u, <<>>), workers[i].sent)
                     /\ InSeq(PublishMsg(u, <<>>), Out) ]_vars

(* C5: while a check has not sent all its notifications the busy flag is    *)
(* set, and the flag is cleared only by a check that has none left to send  *)
(* and whose notifications are all on the channel or written.               *)
C5_ClearedAfterEnqueue ==
    /\ [](\A i \in DOMAIN workers : workers[i].pc # "store" => diag_running)
    /\ [][ (diag_running /\ ~diag_running') =>
             \E i \in DOMAIN workers :
                 /\ workers' = RemoveAt(workers, i)
                 /\ workers[i].result = "ok" =>
                       /\ workers[i].todo = {}
                       /\ \A u \in workers[i].open_urls :
                             InSeq(PublishMsg(u, workers[i].map[u]), Out)
                 /\ \A k \in DOMAIN workers[i].sent : InSeq(workers[i].sent[k], Out) ]_vars

(* A check has enqueued notifications and then cleared the flag.            *)
C5_Witness ==
    /\ ~diag_running /\ workers = <<>>
    /\ \E k \in DOMAIN Out : Out[k].kind = "publishDiagnostics"

(* C6 (as claimed): once the read loop has stopped, run() goes on to        *)
(* return: until it has, some thread can take a step.                       *)
C6_RunReturnsAfterExit ==
    mainPc \in {"drop_tx", "join"} => ENABLED Next

(* C9: a request for a method other than initialize, shutdown and hover is  *)
(* answered with error -32601, an initialize or hover request with bad      *)
(* params with error -32602, and the loop goes on to read the next message. *)
C9_ProtocolErrors ==
    [][ (MainHandles /\ IsRequest(cur)) =>
          /\ (cur.method \notin {"initialize", "shutdown", "textDocument/hover"})
                => /\ queue' = Append(queue, [kind |-> "error", id |-> cur.id,
                                  code |-> -32601, uri |-> "", body |-> <<>>])
                   /\ mainPc' = "read"
          /\ (cur.method \in {"initialize", "textDocument/hover"} /\ ~cur.params.ok)
                => /\ queue' = Append(queue, [kind |-> "error", id |-> cur.id,
                                  code |-> -32602, uri |-> "", body |-> <<>>])
                   /\ mainPc' = "read" ]_vars

(* Both errors have been sent and a later message is being handled.         *)
C9_Witness ==
    /\ mainPc = "handle"
    /\ \E k \in DOMAIN Out : Out[k].kind = "error" /\ Out[k].code = -32601
    /\ \E k \in DOMAIN Out : Out[k].kind = "error" /\ Out[k].code = -32602

(* C10: the ids of the responses enqueued so far are the ids of the         *)
(* requests read so far, in the same order, but for the request being       *)
(* handled: when the next message is read every request has its one         *)
(* response, and the other messages have none.                              *)
C10_ResponsesFollowRequests ==
    ResponseIds(Out) =
        IF mainPc = "handle" /\ IsRequest(cur)
        THEN SubSeq(reqLog, 1, Len(reqLog) - 1)
        ELSE reqLog

(* Two requests with different ids and a notification have been handled.    *)
C10_Witness ==
    /\ mainPc = "read" /\ nRead = 3
    /\ Len(reqLog) = 2 /\ reqLog[1] # reqLog[2]
    /\ ResponseIds(Out) = reqLog

(* read_message ended the loop on a transport error.                        *)
TransportFailed == readStatus \in {"io_error", "no_length", "bad_json"}

(* C11: once read_message has met an I/O error, a header block without a    *)
(* parsable Content-Length or a body that is not JSON, the read loop is     *)
(* over: run() is past the loop, no message is being handled, and no        *)
(* message is read or handled afterwards.                                   *)
C11_TransportErrorEndsLoop ==
    /\ [](TransportFailed => mainPc \in {"drop_tx", "join", "returned"} /\ cur = NoMsg)
    /\ [][TransportFailed =>
             UNCHANGED <<nRead, cur, reqLog, config, root, docs, shutdown>>]_vars

(* Two messages were handled, then a body that is not JSON ended the loop   *)
(* and run() went on to join the writer.                                    *)
C11_Witness ==
    /\ readStatus = "bad_json"
    /\ nRead = 2
    /\ docs # DocumentStoreNew
    /\ mainPc = "join"

(* The message being handled is the notification `method` with params that *)
(* deserialize, for the document uri.                                       *)
Notifies(method, uri) ==
    /\ MainHandles
    /\ cur.method = method /\ cur.id = NoId
    /\ cur.params.ok
    /\ cur.params.uri = uri

(* C12: the store starts empty and follows the notifications: a didOpen     *)
(* stores its text and version, a didChange with entries stores the text of *)
(* its last entry and its version, a didClose removes the document, and     *)
(* nothing else changes what the store holds for a uri.                     *)
C12_StoreHoldsLatest ==
    /\ [](nRead = 0 => docs = DocumentStoreNew)
    /\ [][\A uri \in Uris :
             docs'[uri] =
                 IF Notifies("textDocument/didOpen", uri)
                 THEN [open |-> TRUE, text |-> cur.params.text,
                       version |-> cur.params.version]
                 ELSE IF Notifies("textDocument/didChange", uri)
                         /\ Len(cur.params.content_changes) > 0
                 THEN [open |-> TRUE,
                       text |-> cur.params.content_changes[
                                    Len(cur.params.content_changes)],
                       version |-> cur.params.version]
                 ELSE IF Notifies("textDocument/didClose", uri)
                 THEN [open |-> FALSE]
                 ELSE docs[uri]]_vars

(* u1 was opened and then changed with two entries, the last one "t1"; u2   *)
(* holds a document that only a didChange created.                          *)
C12_Witness ==
    /\ mainPc = "read"
    /\ nRead = 3
    /\ docs["u1"] = [open |-> TRUE, text |-> "t1", version |-> 2]
    /\ docs["u2"] = [open |-> TRUE, text |-> "t2", version |-> 2]

(* C29: every started check clears the busy flag in the end, whether        *)
(* run_check succeeds or returns an error, and a didSave handled once the   *)
(* flag is clear (checkOnSave on, a root stored) starts a new check.        *)
C29_CheckClearsBusyFlag ==
    /\ diag_running ~> ~diag_running
    /\ [][(MainHandles /\ IsSave(cur) /\ config.check_on_save
            /\ root # NoRoot /\ ~diag_running)
          => (diag_running' /\ Len(workers') = Len(workers) + 1)]_vars

(* A check has run, published for an open document and ended: the flag is   *)
(* clear and no worker is left.                                             *)
C29_Witness ==
    /\ ~diag_running
    /\ workers = <<>>
    /\ \E k \in DOMAIN written : written[k].kind = "publishDiagnostics"

(* C24: a didSave starts a check only when checkOnSave is true and a root   *)
(* is stored, which only the handling of an initialize request does;        *)
(* otherwise it starts no check and leaves the busy flag as it was.         *)
C24_SaveChecksOnlyWhenEnabled ==
    [][ /\ (MainHandles /\ IsSave(cur) /\ Len(workers') > Len(workers))
             => (config.check_on_save /\ root # NoRoot)
        /\ (MainHandles /\ IsSave(cur) /\ ~(config.check_on_save /\ root # NoRoot))
             => UNCHANGED <<workers, diag_running>>
        /\ (root' # root)
             => (MainHandles /\ IsRequest(cur) /\ cur.method = "initialize") ]_vars

(* A didSave is being handled with a root stored, checkOnSave switched off  *)
(* and no check running.                                                    *)
C24_Witness ==
    /\ mainPc = "handle" /\ IsSave(cur)
    /\ root # NoRoot /\ ~config.check_on_save
    /\ ~diag_running /\ workers = <<>>

(* The checkCommand of the settings object the notification being handled  *)
(* carries, Absent when it carries none.                                    *)
CheckCommandSetting ==
    IF ~cur.params.ok THEN Absent
    ELSE IF cur.params.settings.stapler.t = "object"
    THEN cur.params.settings.stapler.v.checkCommand
    ELSE cur.params.settings.checkCommand

ConfigurationChanges ==
    MainHandles /\ cur.method = "workspace/didChangeConfiguration" /\ cur.id = NoId

(* C19: the configured check command is never empty, and a                  *)
(* didChangeConfiguration whose checkCommand is an array without a string   *)
(* leaves the command as it was.                                            *)
C19_CheckCommandNeverEmpty ==
    /\ [](config.check_command # <<>>)
    /\ [][(/\ ConfigurationChanges
           /\ CheckCommandSetting.t = "array"
           /\ \A i \in DOMAIN CheckCommandSetting.items :
                 CheckCommandSetting.items[i].t # "string")
          => config'.check_command = config.check_command]_vars

(* With the command set to `make` by an earlier notification, the third     *)
(* message is a didChangeConfiguration whose checkCommand holds a number    *)
(* only.                                                                    *)
C19_Witness ==
    /\ mainPc = "handle"
    /\ nRead = 3
    /\ config.check_command = <<"make">>
    /\ cur.method = "workspace/didChangeConfiguration" /\ cur.id = NoId
    /\ cur.params.ok
    /\ cur.params.settings.checkCommand = JArr(<<JNum>>)

(***************************************************************************)
(* Properties of the lexer.                                                *)
(***************************************************************************)
TokenBytesOk(text, tok) ==
    CASE tok.kind = "Ident" -> tok.name = Slice(text, tok.start, tok.end)
      [] tok.kind = "Lifetime" ->
            /\ At(text, tok.start) = "'"
            /\ tok.name = Slice(text, tok.start + 1, tok.end)
      [] tok.kind = "Punct" ->
            tok.end = tok.start + 1 /\ tok.ch = At(text, tok.start)
      [] tok.kind = "DoubleColon" -> Slice(text, tok.start, tok.end) = <<":", ":">>
      [] tok.kind = "Arrow" -> Slice(text, tok.start, tok.end) = <<"-", ">">>
      [] tok.kind = "Number" -> At(text, tok.start) \in Digits

TokensWellFormed(text, tokens) ==
    /\ \A k \in DOMAIN tokens :
          /\ 0 <= tokens[k].start
          /\ tokens[k].start < tokens[k].end
          /\ tokens[k].end <= Len(text)
          /\ TokenBytesOk(text, tokens[k])
    /\ \A k \in 1..(Len(tokens) - 1) :
          /\ tokens[k].end <= tokens[k + 1].start
          /\ tokens[k].start < tokens[k + 1].start

(* C8: the tokens lex returns have non-empty ranges inside the text, each   *)
(* starting at or after the end of the one before, in strictly increasing   *)
(* order of start, and each token is the bytes of its range.                *)
C8_LexRangesOrdered == lpc = "lexed" => TokensWellFormed(ltext, ltokens)

(* lex returned two tokens with a discarded span between them and one       *)
(* after the last.                                                          *)
C8_Witness ==
    /\ lpc = "lexed"
    /\ Len(ltokens) >= 2
    /\ ltokens[1].end < ltokens[2].start
    /\ Last(ltokens).end < Len(ltext)

(***************************************************************************)
(* Properties of inlay_hints.                                              *)
(***************************************************************************)
(* The calls the argument-name pass collected from the requested document. *)
RequestCalls == collect_calls(docs[ireq.uri].text)

(* inlay_hints has returned for a document of the store.                    *)
Answered == ipc = "done" /\ docs[ireq.uri].open

ArgPositions(call) ==
    {offset_to_position(docs[ireq.uri].text, call.arg_starts[k]).v :
        k \in DOMAIN call.arg_starts}

(* The argument-name pass put a hint at an argument of the call.            *)
ArgHinted(call) ==
    \E h \in DOMAIN ipass.args :
        /\ ipass.args[h].kind = "PARAMETER"
        /\ ipass.args[h].position \in ArgPositions(call)

FnCount(name) == Len(MapGet(iindex.fn_defs, name, <<>>))

MethodCount(name) == Len(MapGet(iindex.method_defs, name, <<>>))

(* C1, as stated: a call to a name with more than one signature in fn_defs *)
(* gets no argument-name hint, be it a function call or a method call.     *)
C1_NoHintWhenFnAmbiguous ==
    Answered =>
        \A c \in DOMAIN RequestCalls :
            FnCount(RequestCalls[c].name) > 1 => ~ArgHinted(RequestCalls[c])

(* C1, amended: a function call gets no argument-name hint when fn_defs    *)
(* holds more than one signature for its name, and a method call gets none *)
(* when method_defs holds more than one signature for its name.            *)
C1_NoHintWhenAmbiguousForKind ==
    Answered =>
        \A c \in DOMAIN RequestCalls :
            LET call == RequestCalls[c]
            IN  \/ call.kind = "Function" /\ FnCount(call.name) > 1
                \/ call.kind = "Method" /\ MethodCount(call.name) > 1
                => ~ArgHinted(call)

(* The document calls an ambiguous function with an argument and an        *)
(* ambiguous method with an argument.                                       *)
C1_Witness ==
    /\ Answered
    /\ \E c \in DOMAIN RequestCalls :
          /\ RequestCalls[c].kind = "Function"
          /\ RequestCalls[c].arg_starts # <<>>
          /\ FnCount(RequestCalls[c].name) > 1
    /\ \E c \in DOMAIN RequestCalls :
          /\ RequestCalls[c].kind = "Method"
          /\ RequestCalls[c].arg_starts # <<>>
          /\ MethodCount(RequestCalls[c].name) > 1

(* a is not after b, by line and then by character.                         *)
NotAfter(a, b) == a.line < b.line \/ (a.line = b.line /\ a.character <= b.character)

(* C7: every hint inlay_hints returns lies between the start and the end   *)
(* of the requested range, and the hints are returned in non-decreasing    *)
(* order of line and then character.                                        *)
C7_HintsInRangeSorted ==
    ipc = "done" =>
        /\ \A k \in DOMAIN ihints :
              /\ NotAfter(ireq.range.start, ihints[k].position)
              /\ NotAfter(ihints[k].position, ireq.range.end)
        /\ \A k \in 1..(Len(ihints) - 1) :
              NotAfter(ihints[k].position, ihints[k + 1].position)

(* The passes produced hints out of order, some outside the range, and at  *)
(* least two at different positions were returned.                          *)
C7_Witness ==
    /\ ipc = "done"
    /\ Len(ihints) >= 2
    /\ ihints[1].position # Last(ihints).position
    /\ Len(ihints) < Len(AllHints(ipass))
    /\ \E j, k \in DOMAIN AllHints(ipass) :
          j < k /\ ~NotAfter(AllHints(ipass)[j].position, AllHints(ipass)[k].position)

(***************************************************************************)
(* Properties of the index.                                                *)
(***************************************************************************)
SelfName == <<"s", "e", "l", "f">>

TakesSelf(sig) == sig.params # <<>> /\ sig.params[1] = SelfName

(* The signatures that take self, in order, each without its self.          *)
RECURSIVE WithoutSelf(_)
WithoutSelf(sigs) ==
    IF sigs = <<>> THEN <<>>
    ELSE IF TakesSelf(sigs[1])
    THEN <<[params |-> Tail(sigs[1].params),
            return_type |-> sigs[1].return_type,
            generics |-> sigs[1].generics,
            has_self |-> FALSE]>> \o WithoutSelf(Tail(sigs))
    ELSE WithoutSelf(Tail(sigs))

FnsOf(index, name) == MapGet(index.fn_defs, name, <<>>)

MethodsOf(index, name) == MapGet(index.method_defs, name, <<>>)

(* C13: in the index a build leaves, the method entries of a name are the   *)
(* function entries of that name whose params begin with self, in the same  *)
(* order and each with the self removed, so that there are never more       *)
(* method entries than function entries.                                    *)
C13_MethodsMirrorFns ==
    ipc = "done" =>
        \A name \in DOMAIN iindex.fn_defs \cup DOMAIN iindex.method_defs :
            /\ MethodsOf(iindex, name) = WithoutSelf(FnsOf(iindex, name))
            /\ Len(MethodsOf(iindex, name)) <= Len(FnsOf(iindex, name))

(* A name has two method entries and a function entry that takes no self.   *)
C13_Witness ==
    /\ ipc = "done"
    /\ \E name \in DOMAIN iindex.method_defs :
          /\ Len(MethodsOf(iindex, name)) = 2
          /\ Len(FnsOf(iindex, name)) = 3

(* The names recorded in the index, and one that never is.                  *)
QueriedNames(index) ==
    DOMAIN index.fn_defs \cup DOMAIN index.method_defs
    \cup DOMAIN index.generics \cup DOMAIN index.type_names \cup {<<"q">>}

GenericsOf(index, name) == MapGet(index.generics, name, <<>>)

TypeCount(index, name) == MapGet(index.type_names, name, 0)

(* A query answers only with the single entry recorded under the name.      *)
AnswersOnlyUnique(index, name) ==
    /\ unique_fn(index, name).some =>
          Len(FnsOf(index, name)) = 1 /\ unique_fn(index, name).v = FnsOf(index, name)[1]
    /\ unique_method(index, name).some =>
          /\ Len(MethodsOf(index, name)) = 1
          /\ unique_method(index, name).v = MethodsOf(index, name)[1]
    /\ unique_generics(index, name).some =>
          /\ Len(GenericsOf(index, name)) = 1
          /\ unique_generics(index, name).v = GenericsOf(index, name)[1]
    /\ is_unique_type(index, name) => TypeCount(index, name) = 1

(* C14: a query answers only when exactly one entry is recorded under the   *)
(* name, and a name that has two entries gets no answer after any later     *)
(* merge of the build.                                                      *)
C14_UniqueLookupDiscipline ==
    /\ [](\A name \in QueriedNames(mindex) : AnswersOnlyUnique(mindex, name))
    /\ [][\A name \in QueriedNames(mindex) :
            /\ Len(FnsOf(mindex, name)) >= 2 => ~unique_fn(mindex', name).some
            /\ Len(MethodsOf(mindex, name)) >= 2 => ~unique_method(mindex', name).some
            /\ Len(GenericsOf(mindex, name)) >= 2 => ~unique_generics(mindex', name).some
            /\ TypeCount(mindex, name) >= 2 => ~is_unique_type(mindex', name)]_vars

(* After three merges a type name has two generic lists and a count of     *)
(* two, a function name has two signatures, and a further name still has    *)
(* its single answer.                                                       *)
C14_Witness ==
    /\ Len(merged) = 3
    /\ \E name \in QueriedNames(mindex) :
          Len(GenericsOf(mindex, name)) >= 2 /\ TypeCount(mindex, name) >= 2
    /\ \E name \in QueriedNames(mindex) :
          Len(FnsOf(mindex, name)) >= 2 /\ ~unique_fn(mindex, name).some
    /\ \E name \in QueriedNames(mindex) : unique_fn(mindex, name).some

(* What one source alone records under a name.                              *)
FnsIn(text, name) == Len(FnsOf(add_source(WorkspaceIndexDefault, text), name))

TypesIn(text, name) == TypeCount(add_source(WorkspaceIndexDefault, text), name)

OpenPaths == {PathOfUri[u] : u \in open_urls(docs)}

(* The open documents, and the .rs files on disk at the path of none.       *)
SourcesToCount ==
    {[path |-> PathOfUri[u], text |-> docs[u].text] : u \in open_urls(docs)}
    \cup {[path |-> file.path, text |-> file.text] :
             file \in {g \in WorkspaceFiles : g.ext = "rs" /\ g.path \notin OpenPaths}}

RECURSIVE FnsInAll(_, _)
FnsInAll(sources, name) ==
    IF sources = {} THEN 0
    ELSE LET s == CHOOSE x \in sources : TRUE
         IN  FnsIn(s.text, name) + FnsInAll(sources \ {s}, name)

RECURSIVE TypesInAll(_, _)
TypesInAll(sources, name) ==
    IF sources = {} THEN 0
    ELSE LET s == CHOOSE x \in sources : TRUE
         IN  TypesIn(s.text, name) + TypesInAll(sources \ {s}, name)

(* A file on disk at the path of an open document, with a type of this name *)
(* that the document defines once and no other source defines.              *)
ShadowedOnDisk(name) ==
    \E u \in open_urls(docs), file \in WorkspaceFiles :
        /\ file.path = PathOfUri[u] /\ file.ext = "rs"
        /\ TypesIn(file.text, name) = 1
        /\ TypesIn(docs[u].text, name) = 1
        /\ TypesInAll(SourcesToCount, name) = 1

(* C15: built with a root, the index counts under each name what the open  *)
(* documents define and what the files at other paths define: the file at  *)
(* the path of an open document adds nothing, and a type that only that     *)
(* document and its file define stays unique.                               *)
C15_OpenDocumentShadowsFile ==
    ipc = "done" /\ docs[ireq.uri].open /\ root # NoRoot =>
        /\ \A name \in QueriedNames(iindex) :
              /\ Len(FnsOf(iindex, name)) = FnsInAll(SourcesToCount, name)
              /\ TypeCount(iindex, name) = TypesInAll(SourcesToCount, name)
        /\ \A name \in QueriedNames(iindex) :
              ShadowedOnDisk(name) => is_unique_type(iindex, name)

(* The index was built with a root while a document was open at the path   *)
(* of a file that defines the same type.                                    *)
C15_Witness ==
    /\ ipc = "done" /\ docs[ireq.uri].open /\ root # NoRoot
    /\ \E name \in QueriedNames(iindex) :
          ShadowedOnDisk(name) /\ is_unique_type(iindex, name)

(***************************************************************************)
(* Properties of uris and paths.                                           *)
(***************************************************************************)
(* An ASCII graphic character or a space.                                   *)
IsGraphicOrSpace(b) == 32 <= b /\ b <= 126

(* C16: for an absolute path of ASCII graphic characters and spaces,        *)
(* path_to_uri gives a uri and uri_to_path gives back the path.             *)
C16_PathUriRoundTrip ==
    (/\ upc = "converted"
     /\ is_absolute(upath)
     /\ \A i \in DOMAIN upath : IsGraphicOrSpace(upath[i]))
    => uuri.some /\ uback.some /\ PathEq(uback.v, upath)

(***************************************************************************)
(* Properties of positions.                                                *)
(***************************************************************************)
(* The byte offsets at which a character of the text starts, and its end.   *)
RECURSIVE CharBoundaries(_, _)
CharBoundaries(text, idx) ==
    IF text = <<>> THEN {idx}
    ELSE {idx} \cup CharBoundaries(Tail(text), idx + len_utf8(Head(text)))

(* C17: for a byte offset that is at most the length of the text and falls  *)
(* on a character boundary, position_to_offset of offset_to_position of    *)
(* the offset is the offset.                                                *)
C17_OffsetPositionRoundTrip ==
    (/\ ppc = "converted"
     /\ poff <= ByteLen(ptext)
     /\ poff \in CharBoundaries(ptext, 0))
    => ppos.some /\ pback = Some(poff)

(* The offset after a character outside the basic plane on the second line, *)
(* with a character after it.                                               *)
C17_Witness ==
    /\ ppc = "converted"
    /\ ptext = <<Ch_latin, "\n", Ch_astral, Ch_kana>>
    /\ poff = 7
    /\ ppos = Some(Position(1, 2))
    /\ pback = Some(7)

(***************************************************************************)
(* Properties of two builds of the index.                                  *)
(***************************************************************************)
CountIn(items, x) == Cardinality({i \in DOMAIN items : items[i] = x})

(* Two lists hold the same entries, each as many times.                     *)
SameEntries(a, b) ==
    /\ Len(a) = Len(b)
    /\ \A i \in DOMAIN a : CountIn(a, a[i]) = CountIn(b, a[i])

(* Two indices record the same names, and under each name the same entries. *)
SameUpToOrder(a, b) ==
    /\ DOMAIN a.fn_defs = DOMAIN b.fn_defs
    /\ DOMAIN a.method_defs = DOMAIN b.method_defs
    /\ DOMAIN a.generics = DOMAIN b.generics
    /\ \A name \in DOMAIN a.fn_defs : SameEntries(a.fn_defs[name], b.fn_defs[name])
    /\ \A name \in DOMAIN a.method_defs :
          SameEntries(a.method_defs[name], b.method_defs[name])
    /\ \A name \in DOMAIN a.generics :
          SameEntries(a.generics[name], b.generics[name])
    /\ a.type_names = b.type_names

SameAnswers(a, b) ==
    \A name \in QueriedNames(a) \cup QueriedNames(b) :
        /\ unique_fn(a, name) = unique_fn(b, name)
        /\ unique_method(a, name) = unique_method(b, name)
        /\ unique_generics(a, name) = unique_generics(b, name)
        /\ is_unique_type(a, name) = is_unique_type(b, name)

(* C18, as stated: a second build from the same documents and files gives   *)
(* an equal index, and unique_fn, unique_method, unique_generics and        *)
(* is_unique_type answer the same whatever the order of the merges.         *)
C18_BuildTwiceEqual ==
    rebuilt.some => rebuilt.v = mindex /\ SameAnswers(rebuilt.v, mindex)

(* C18, amended: a second build from the same documents and files records   *)
(* the same names with the same entries under each, in an order that       *)
(* follows the order of the merges, and the four unique lookups answer the  *)
(* same whatever that order.                                                *)
C18_BuildTwiceSameUpToOrder ==
    rebuilt.some => SameUpToOrder(rebuilt.v, mindex) /\ SameAnswers(rebuilt.v, mindex)

(* Three sources rebuilt in another order: the indices differ, a name has   *)
(* two methods, and a name has its single function in both.                 *)
C18_Witness ==
    /\ rebuilt.some
    /\ Len(merged) = 3
    /\ reorder # merged
    /\ rebuilt.v # mindex
    /\ \E name \in QueriedNames(mindex) : Len(MethodsOf(mindex, name)) >= 2
    /\ \E name \in QueriedNames(mindex) : unique_fn(mindex, name).some

(***************************************************************************)
(* Properties of the local-variable pass.                                  *)
(***************************************************************************)
(* The let tokens of a token list, by index.                                *)
LetTokens(tokens) ==
    {i \in 0..(Len(tokens) - 1) : is_ident(TokAt(tokens, i), Kw_let)}

(* The index of the token that names the binding of the let at i: the one   *)
(* after the let and its mut.                                               *)
BindingIndex(tokens, i) ==
    IF i + 1 < Len(tokens) /\ is_ident(TokAt(tokens, i + 1), Kw_mut)
    THEN i + 2 ELSE i + 1

(* The bracket depth before token j, counted from token from on, a closing  *)
(* bracket at depth zero leaving it at zero.                                *)
RECURSIVE DepthBefore(_, _, _)
DepthBefore(tokens, from, j) ==
    IF j <= from THEN 0
    ELSE IF IsOpening(TokAt(tokens, j - 1)) THEN DepthBefore(tokens, from, j - 1) + 1
    ELSE IF IsClosing(TokAt(tokens, j - 1))
    THEN Dec(DepthBefore(tokens, from, j - 1))
    ELSE DepthBefore(tokens, from, j - 1)

(* Token j is the punctuation ch at depth zero of the statement of let i.   *)
AtDepthZero(tokens, i, j, ch) ==
    /\ is_punct(TokAt(tokens, j), ch)
    /\ DepthBefore(tokens, BindingIndex(tokens, i) + 1, j) = 0

(* The tokens after the binding name of let i, up to the first '=' or ';'   *)
(* at depth zero.                                                           *)
BeforeStop(tokens, i) ==
    {j \in (BindingIndex(tokens, i) + 1)..(Len(tokens) - 1) :
        \A k \in (BindingIndex(tokens, i) + 1)..(j - 1) :
            ~AtDepthZero(tokens, i, k, "=") /\ ~AtDepthZero(tokens, i, k, ";")}

Annotated(tokens, i) ==
    \E j \in BeforeStop(tokens, i) :
        /\ AtDepthZero(tokens, i, j, ":")
        /\ \E k \in BeforeStop(tokens, i) : k > j /\ AtDepthZero(tokens, i, k, "=")

AfterPatternKeyword(tokens, i) ==
    i > 0 /\ \E kw \in PatternKeywords : is_ident(TokAt(tokens, i - 1), kw)

BindsUnderscore(tokens, i) ==
    /\ BindingIndex(tokens, i) < Len(tokens)
    /\ is_ident(TokAt(tokens, BindingIndex(tokens, i)), <<"_">>)

NoEquals(tokens, i) ==
    ~\E j \in BeforeStop(tokens, i) : AtDepthZero(tokens, i, j, "=")

(* The hints at the end of the binding name of let i.                       *)
HintsOfLet(text, tokens, i, hints) ==
    {h \in DOMAIN hints :
        /\ BindingIndex(tokens, i) < Len(tokens)
        /\ Some(hints[h].position)
             = offset_to_position(text, TokAt(tokens, BindingIndex(tokens, i)).end)}

LetDiscipline(text, tokens, hints) ==
    /\ \A h \in DOMAIN hints :
          /\ hints[h].kind = "TYPE"
          /\ \E i \in LetTokens(tokens) : h \in HintsOfLet(text, tokens, i, hints)
    /\ \A i \in LetTokens(tokens) :
          /\ Cardinality(HintsOfLet(text, tokens, i, hints)) <= 1
          /\ (\/ Annotated(tokens, i)
              \/ AfterPatternKeyword(tokens, i)
              \/ BindsUnderscore(tokens, i)
              \/ NoEquals(tokens, i))
             => HintsOfLet(text, tokens, i, hints) = {}

(* C20: every hint of the local-variable pass is a Type hint right after    *)
(* the binding name of a let, a let has at most one, and it has none when   *)
(* a ':' at depth zero comes before the '=', when if, while, match or for   *)
(* comes right before the let, when the binding is `_`, or when the         *)
(* statement has no '='.                                                    *)
C20_LocalVarHints ==
    vpc = "done" => LetDiscipline(Concat(vtext), lex(Concat(vtext)), vhints)

(* `let _=1;` then `let mut y=1;` on the next line: the one hint is after y. *)
C20_Witness ==
    /\ vpc = "done"
    /\ vtext = <<<<"l", "e", "t", " ", "_">>, <<"=", "1", ";", "\n">>, <<"l", "e", "t", " ", "m", "u", "t", " ", "y">>, <<"=", "1", ";", "\n">>>>
    /\ Len(vhints) = 1
    /\ vhints[1].position = Position(1, 9)
    /\ vhints[1].kind = "TYPE"

(***************************************************************************)
(* Properties of the argument-name pass.                                   *)
(***************************************************************************)
(* The index of the '(' of a collected call: the one whose matching ')'     *)
(* is at call.close_paren.                                                  *)
OpenOf(tokens, call) ==
    CHOOSE i \in 0..(Len(tokens) - 1) :
        /\ is_punct(TokAt(tokens, i), "(")
        /\ detect_call_name(tokens, i).some
        /\ find_matching_paren(tokens, i).some
        /\ TokAt(tokens, find_matching_paren(tokens, i).v).start = call.close_paren

CloseOf(tokens, call) == find_matching_paren(tokens, OpenOf(tokens, call)).v

(* Token j is a ',' between the arguments of the call opened at open.       *)
SeparatesArgs(tokens, open, j) ==
    is_punct(TokAt(tokens, j), ",") /\ DepthBefore(tokens, open + 1, j) = 0

(* The start offsets of the arguments between open and close: the start of  *)
(* the first token of each.                                                 *)
RECURSIVE ArgumentStarts(_, _, _, _)
ArgumentStarts(tokens, open, j, close) ==
    IF j >= close THEN <<>>
    ELSE IF /\ ~SeparatesArgs(tokens, open, j)
            /\ (j = open + 1 \/ SeparatesArgs(tokens, open, j - 1))
    THEN <<TokAt(tokens, j).start>> \o ArgumentStarts(tokens, open, j + 1, close)
    ELSE ArgumentStarts(tokens, open, j + 1, close)

(* The hints of one call: params[i] + ":" at argument i, unless the name is *)
(* empty or `_`.                                                            *)
RECURSIVE NamedArgs(_, _, _, _)
NamedArgs(text, params, starts, i) ==
    IF i > Min(Len(params), Len(starts)) THEN <<>>
    ELSE (IF params[i] \in {<<>>, <<"_">>} THEN <<>>
          ELSE <<[position |-> offset_to_position(text, starts[i]).v,
                  label |-> params[i] \o <<":">>,
                  kind |-> "PARAMETER"]>>)
         \o NamedArgs(text, params, starts, i + 1)

RECURSIVE HintsOfCalls(_, _, _, _)
HintsOfCalls(text, tokens, calls, index) ==
    IF calls = <<>> THEN <<>>
    ELSE (IF SigOfCall(index, Head(calls)).some
          THEN NamedArgs(text, SigOfCall(index, Head(calls)).v.params,
                         ArgumentStarts(tokens, OpenOf(tokens, Head(calls)),
                                        OpenOf(tokens, Head(calls)) + 1,
                                        CloseOf(tokens, Head(calls))),
                         1)
          ELSE <<>>)
         \o HintsOfCalls(text, tokens, Tail(calls), index)

(* C21: the hints of the argument-name pass are, for every collected call   *)
(* whose signature resolves, params[i] + ":" at the start offset of         *)
(* argument i for each i below the smaller of the two counts, except where  *)
(* params[i] is empty or `_`, and no others.                                *)
C21_ArgHintsAtArgumentStarts ==
    vpc = "done"
    => vhints = HintsOfCalls(Concat(vtext), lex(Concat(vtext)),
                             collect_calls(Concat(vtext)), ArgIndex)

(* The '(' tokens whose preceding tokens name a call and that are closed.   *)
CallSites(tokens) ==
    {i \in 0..(Len(tokens) - 1) :
        /\ is_punct(TokAt(tokens, i), "(")
        /\ detect_call_name(tokens, i).some
        /\ find_matching_paren(tokens, i).some}

(* The call the collector should yield for the site i, its argument starts  *)
(* left aside.                                                              *)
Collected(tokens, calls, i) ==
    \E k \in DOMAIN calls :
        /\ calls[k].close_paren = TokAt(tokens, find_matching_paren(tokens, i).v).start
        /\ calls[k].name = detect_call_name(tokens, i).v.name
        /\ calls[k].kind = detect_call_name(tokens, i).v.kind

(* A hint labelled with the first parameter lies between the parentheses    *)
(* of the site i.                                                           *)
FirstArgHinted(text, tokens, hints, i, name) ==
    \E h \in DOMAIN hints :
        /\ hints[h].label = name \o <<":">>
        /\ \E off \in TokAt(tokens, i).start..
                       TokAt(tokens, find_matching_paren(tokens, i).v).start :
              hints[h].position = offset_to_position(text, off).v

SiteSig(tokens, index, i) ==
    IF detect_call_name(tokens, i).v.kind = "Function"
    THEN unique_fn(index, detect_call_name(tokens, i).v.name)
    ELSE unique_method(index, detect_call_name(tokens, i).v.name)

CallsAllCollected(text, tokens, calls, hints, index) ==
    \A i \in CallSites(tokens) :
        /\ Collected(tokens, calls, i)
        /\ (/\ SiteSig(tokens, index, i).some
            /\ find_matching_paren(tokens, i).v > i + 1
            /\ SiteSig(tokens, index, i).v.params # <<>>
            /\ SiteSig(tokens, index, i).v.params[1] \notin {<<>>, <<"_">>})
           => FirstArgHinted(text, tokens, hints, i,
                             SiteSig(tokens, index, i).v.params[1])

(* C25: the collector yields a Call for every '(' whose preceding tokens    *)
(* name a call, those inside the argument list of another collected call    *)
(* included, so that a call nested in the arguments of another gets its     *)
(* argument-name hints too.                                                 *)
C25_NestedCallsCollected ==
    vpc = "done"
    => CallsAllCollected(Concat(vtext), lex(Concat(vtext)),
                         collect_calls(Concat(vtext)), vhints, ArgIndex)

(***************************************************************************)
(* Properties of the const-generic pass.                                   *)
(***************************************************************************)
(* The '<' tokens that open a generic argument list attached to a name,     *)
(* from token i on, a list being passed over once it is found.              *)
RECURSIVE GenericListSites(_, _)
GenericListSites(tokens, i) ==
    IF i >= Len(tokens) THEN <<>>
    ELSE IF is_punct(TokAt(tokens, i), "<") /\ detect_generic_arg_list(tokens, i).some
    THEN <<i>> \o GenericListSites(tokens, detect_generic_arg_list(tokens, i).v.end_idx + 1)
    ELSE GenericListSites(tokens, i + 1)

(* The hints of one list: the name of the i-th parameter at argument i      *)
(* where that parameter is a const.                                         *)
RECURSIVE ConstArgs(_, _, _, _)
ConstArgs(text, generics, starts, i) ==
    IF i > Min(Len(generics), Len(starts)) THEN <<>>
    ELSE (IF generics[i].kind = "Const"
          THEN <<[position |-> offset_to_position(text, starts[i]).v,
                  label |-> generics[i].name \o <<":">>,
                  kind |-> "PARAMETER"]>>
          ELSE <<>>)
         \o ConstArgs(text, generics, starts, i + 1)

RECURSIVE HintsOfLists(_, _, _, _)
HintsOfLists(text, tokens, sites, index) ==
    IF sites = <<>> THEN <<>>
    ELSE (IF unique_generics(index,
                 detect_generic_arg_list(tokens, Head(sites)).v.name).some
          THEN ConstArgs(text,
                   unique_generics(index,
                       detect_generic_arg_list(tokens, Head(sites)).v.name).v,
                   ArgumentStarts(tokens, Head(sites), Head(sites) + 1,
                       detect_generic_arg_list(tokens, Head(sites)).v.end_idx),
                   1)
          ELSE <<>>)
         \o HintsOfLists(text, tokens, Tail(sites), index)

(* C22: for a generic argument list attached to a name, the const-generic   *)
(* pass emits the name of the i-th generic parameter at the offset of       *)
(* argument i exactly when unique_generics(name) exists and its i-th        *)
(* parameter is a const; type and lifetime positions get none.              *)
C22_ConstHintsAtArguments ==
    vpc = "done"
    => vhints = HintsOfLists(Concat(vtext), lex(Concat(vtext)),
                             GenericListSites(lex(Concat(vtext)), 0), ConstIndex)

(***************************************************************************)
(* Hover: src/hover/mod.rs.  The store is a HashMap; iter() visits its     *)
(* documents in an order the map decides, order below.                     *)
(***************************************************************************)
is_ident_char(b) == b = "_" \/ b \in Letters \/ b \in Digits

(* while start > 0 && is_ident_char(bytes[start - 1]) { start -= 1 }         *)
RECURSIVE IdentStart(_, _)
IdentStart(bytes, start) ==
    IF start > 0 /\ is_ident_char(At(bytes, start - 1))
    THEN IdentStart(bytes, start - 1) ELSE start

(* while end < bytes.len() && is_ident_char(bytes[end]) { end += 1 }         *)
RECURSIVE IdentEnd(_, _)
IdentEnd(bytes, end) ==
    IF end < Len(bytes) /\ is_ident_char(At(bytes, end))
    THEN IdentEnd(bytes, end + 1) ELSE end

(* extract_ident_at once start and end are found.                            *)
IdentBetween(text, start, end) ==
    IF start = end THEN None ELSE Some(Slice(text, start, end))

extract_ident_at(text, offset) ==
    IF text = <<>> THEN None
    ELSE IF offset > Len(text) THEN None
    ELSE IdentBetween(text, IdentStart(text, offset), IdentEnd(text, offset))

(* The length of the longest prefix of s made of identifier characters.      *)
RECURSIVE IdentPrefix(_, _)
IdentPrefix(s, end) ==
    IF end < Len(s) /\ is_ident_char(At(s, end))
    THEN IdentPrefix(s, end + 1) ELSE end

take_ident(s) ==
    IF s = <<>> THEN None
    ELSE IF ~(Head(s) = "_" \/ Head(s) \in Letters) THEN None
    ELSE Some(Slice(s, 0, IdentPrefix(s, 1)))

(* rest.find(')'): the index of the first ')' of s, from i on.              *)
RECURSIVE FindCloseParen(_, _)
FindCloseParen(s, i) ==
    IF i >= Len(s) THEN None
    ELSE IF At(s, i) = ")" THEN Some(i)
    ELSE FindCloseParen(s, i + 1)

(* s[from..]                                                                 *)
From(s, from) == Slice(s, from, Len(s))

FirstIsWhitespace(s) == s # <<>> /\ is_ascii_whitespace(Head(s))

(* strip_pub_prefix after `pub` was stripped; rest is already trimmed at    *)
(* its start, trimmed the line.                                             *)
AfterPub(trimmed, rest, idx) ==
    IF starts_with(rest, <<"(">>)
    THEN IF idx.some THEN TrimStart(From(rest, idx.v + 1)) ELSE rest
    ELSE IF FirstIsWhitespace(rest) THEN TrimStart(rest)
    ELSE trimmed

Kw_pub == <<"p", "u", "b">>

strip_pub_prefix(line) ==
    IF starts_with(TrimStart(line), Kw_pub)
    THEN AfterPub(TrimStart(line), TrimStart(From(TrimStart(line), 3)),
                  FindCloseParen(TrimStart(From(TrimStart(line), 3)), 0))
    ELSE TrimStart(line)

HoverKeywords ==
    {<<"f", "n">>,
     <<"s", "t", "r", "u", "c", "t">>,
     <<"e", "n", "u", "m">>,
     <<"t", "y", "p", "e">>,
     <<"c", "o", "n", "s", "t">>,
     <<"m", "o", "d">>,
     <<"t", "r", "a", "i", "t">>,
     <<"i", "m", "p", "l">>}

(* The body of the loop over KEYWORDS for one keyword: the name it finds.    *)
NameAfterKeyword(trimmed, keyword) ==
    IF ~starts_with(trimmed, keyword) THEN None
    ELSE IF ~FirstIsWhitespace(From(trimmed, Len(keyword))) THEN None
    ELSE take_ident(TrimStart(From(trimmed, Len(keyword))))

(* The line defines ident.                                                   *)
LineDefines(line, ident) ==
    /\ ~starts_with(TrimStart(line), <<"/", "/">>)
    /\ ~starts_with(TrimStart(line), <<"/", "*">>)
    /\ \E keyword \in HoverKeywords :
          NameAfterKeyword(strip_pub_prefix(TrimStart(line)), keyword) = Some(ident)

(* str::lines: the text split at "\n", without a final empty line, a "\r"   *)
(* at the end of a line dropped.                                             *)
StripCr(line) ==
    IF line # <<>> /\ Last(line) = "\r" THEN SubSeq(line, 1, Len(line) - 1) ELSE line

RECURSIVE LinesFrom(_, _, _)
LinesFrom(text, current, done) ==
    IF text = <<>>
    THEN IF current = <<>> THEN done ELSE Append(done, StripCr(current))
    ELSE IF Head(text) = "\n"
    THEN LinesFrom(Tail(text), <<>>, Append(done, StripCr(current)))
    ELSE LinesFrom(Tail(text), Append(current, Head(text)), done)

Lines(text) == LinesFrom(text, <<>>, <<>>)

(* for line in doc.text.lines(): the first line that defines ident.          *)
RECURSIVE FirstDefiningLine(_, _)
FirstDefiningLine(lines, ident) ==
    IF lines = <<>> THEN None
    ELSE IF LineDefines(Head(lines), ident) THEN Some(Trim(Head(lines)))
    ELSE FirstDefiningLine(Tail(lines), ident)

(* for (_uri, doc) in docs.iter(), order being the order of the iterator.   *)
RECURSIVE find_definition(_, _, _)
find_definition(store, order, ident) ==
    IF order = <<>> THEN None
    ELSE OrElse(FirstDefiningLine(Lines(store[Head(order)].v), ident),
                find_definition(store, Tail(order), ident))

(* The Markdown value of the Hover: a fenced rust block; "grave" stands for  *)
(* the grave accent.                                                        *)
Fence == <<"grave", "grave", "grave">>

HoverValue(snippet) ==
    Fence \o <<"r", "u", "s", "t", "\n">> \o snippet \o <<"\n">> \o Fence

(* hover once the identifier is known.                                       *)
HoverOfIdent(store, order, ident) ==
    IF ~ident.some THEN None
    ELSE IF ~find_definition(store, order, ident.v).some THEN None
    ELSE Some(HoverValue(find_definition(store, order, ident.v).v))

(* hover once the offset is known.                                           *)
HoverAtOffset(store, order, text, offset) ==
    IF ~offset.some THEN None
    ELSE HoverOfIdent(store, order, extract_ident_at(text, offset.v))

hover(store, order, uri, position) ==
    IF ~store[uri].some THEN None
    ELSE HoverAtOffset(store, order, store[uri].v,
                       position_to_offset(store[uri].v, position))

(***************************************************************************)
(* SpecHover: documents are opened, hover is asked once, and once more     *)
(* with the store iterating in an order of its own.                        *)
(***************************************************************************)
Src_hover_f0 ==
    <<"f", "n", " ", "f", "(", ")">>

Src_hover_f1 ==
    <<"f", "n", " ", "f", "(", "a", ")">>

Src_hover_pub ==
    <<"p", "u", "b", "(", "x", ")", " ", "f", "n", " ", "f", "(", "b", ")", "\n", "p", "u", "b", " ", "f", "n", " ", "g", "(", ")">>

Src_hover_use ==
    <<"/", "/", " ", "f", "n", " ", "f", "\n", " ", " ", "m", "o", "d", " ", "g", ";", "\n", "f", "(", "g", ")">>

HoverTexts == {Src_hover_f0, Src_hover_f1, Src_hover_pub, Src_hover_use}

MaxHoverLine == 2
MaxHoverChar == 10

HoverPositions ==
    {Position(l, c) : l \in 0..MaxHoverLine, c \in {0, 3, MaxHoverChar}}

OpenHoverUris == {u \in Uris : hdocs[u].some}

InitHover ==
    /\ ServerIdle /\ LexIdle /\ InlayIdle /\ IndexIdle /\ UriIdle /\ PosIdle
    /\ LetIdle
    /\ HoverIdle

(* DocumentStore::open                                                       *)
HoverOpen ==
    /\ hpc = "edit"
    /\ \E uri \in Uris, text \in HoverTexts :
         /\ hdocs[uri] # Some(text)
         /\ hdocs' = [hdocs EXCEPT ![uri] = Some(text)]
    /\ UNCHANGED <<hreq, hfirst, hagain, hpc, notHover>>

(* hover(&docs, &uri, position)                                              *)
HoverAsk ==
    /\ hpc = "edit"
    /\ \E uri \in Uris, position \in HoverPositions, order \in Perms(OpenHoverUris) :
         /\ hreq' = Some([uri |-> uri, position |-> position])
         /\ hfirst' = hover(hdocs, order, uri, position)
    /\ hpc' = "asked"
    /\ UNCHANGED <<hdocs, hagain, notHover>>

(* The same call on the same store, the map iterating in another order.     *)
HoverAskAgain ==
    /\ hpc = "asked"
    /\ \E order \in Perms(OpenHoverUris) :
         hagain' = hover(hdocs, order, hreq.v.uri, hreq.v.position)
    /\ hpc' = "again"
    /\ UNCHANGED <<hdocs, hreq, hfirst, notHover>>

NextHover == HoverOpen \/ HoverAsk \/ HoverAskAgain

SpecHover == InitHover /\ [][NextHover]_vars

(***************************************************************************)
(* Properties of hover.                                                    *)
(***************************************************************************)
(* C30: for a fixed set of open documents and a fixed position, hover       *)
(* returns the same definition line whatever the order in which the store   *)
(* iterates its documents, also when more than one open document holds a    *)
(* definition line for the identifier.                                      *)
C30_HoverIndependentOfOrder ==
    hpc = "again" => hagain = hfirst

(***************************************************************************)
(* Properties of the literal-derived hints.                                *)
(***************************************************************************)
(* The text is one quoted literal: it opens with the prefix and the quote   *)
(* and the next quote is its last character.                                *)
IsQuoted(text, prefix, quote) ==
    /\ Len(text) >= Len(prefix) + 2
    /\ starts_with(text, Append(prefix, quote))
    /\ text[Len(text)] = quote
    /\ \A k \in (Len(prefix) + 2)..(Len(text) - 1) : text[k] # quote

(* The text is digits with at most one '.', then at most a type suffix.     *)
IsNumberLiteral(text) ==
    \E k \in 1..Len(text) :
        /\ \A j \in 1..k : text[j] \in Digits \cup {"_", "."}
        /\ \E j \in 1..k : text[j] \in Digits
        /\ Cardinality({j \in 1..k : text[j] = "."}) <= 1
        /\ SubSeq(text, k + 1, Len(text)) \in NumberSuffixes \cup {<<>>}

LiteralKinds == {"bool", "char", "str", "bytes", "number"}

(* The whole text is a single literal of the kind.                          *)
IsLiteralOfKind(text, kind) ==
    CASE kind = "bool" -> text \in {Lit_true, Lit_false}
      [] kind = "char" -> IsQuoted(text, <<>>, "'")
      [] kind = "str" -> IsQuoted(text, <<>>, "\"")
      [] kind = "bytes" -> IsQuoted(text, <<"b">>, "\"")
      [] kind = "number" -> IsNumberLiteral(StripSign(text))

(* The literal kind a hint label names, "none" for any other label.         *)
KindOfLabel(label) ==
    IF label = <<":", " ">> \o Ty_bool THEN "bool"
    ELSE IF label = <<":", " ">> \o Ty_char THEN "char"
    ELSE IF label = <<":", " ">> \o Ty_str THEN "str"
    ELSE IF label = <<":", " ">> \o Ty_bytes THEN "bytes"
    ELSE IF \E s \in NumberSuffixes : label = <<":", " ">> \o s THEN "number"
    ELSE "none"

(* The '=' of the let at i and the offset at which its right-hand side      *)
(* ends: the first ';' at depth zero after the '=', else the end of text.   *)
EqualsOf(tokens, i) ==
    CHOOSE j \in BeforeStop(tokens, i) : AtDepthZero(tokens, i, j, "=")

RhsEnd(text, tokens, eq) ==
    IF \E k \in (eq + 1)..(Len(tokens) - 1) :
          is_punct(TokAt(tokens, k), ";") /\ DepthBefore(tokens, eq + 1, k) = 0
    THEN TokAt(tokens, CHOOSE k \in (eq + 1)..(Len(tokens) - 1) :
              /\ is_punct(TokAt(tokens, k), ";") /\ DepthBefore(tokens, eq + 1, k) = 0
              /\ \A n \in (eq + 1)..(k - 1) :
                    ~(is_punct(TokAt(tokens, n), ";")
                      /\ DepthBefore(tokens, eq + 1, n) = 0)).start
    ELSE Len(text)

(* The trimmed right-hand side of the let at i.                             *)
RhsOf(text, tokens, i) ==
    Trim(Slice(text, TokAt(tokens, EqualsOf(tokens, i)).end,
               RhsEnd(text, tokens, EqualsOf(tokens, i))))

LiteralHintsOnlyForLiterals(text, tokens, hints) ==
    \A i \in LetTokens(tokens) :
        \A h \in HintsOfLet(text, tokens, i, hints) :
            KindOfLabel(hints[h].label) \in LiteralKinds
            => /\ ~NoEquals(tokens, i)
               /\ IsLiteralOfKind(RhsOf(text, tokens, i), KindOfLabel(hints[h].label))

(* C28: the local-variable pass emits a literal-derived hint (bool, char,   *)
(* &str, &[u8] or a numeric type) only when the whole trimmed right-hand    *)
(* side is a single literal of that kind; a right-hand side that begins     *)
(* with a literal and goes on with an operator, a cast or a method call     *)
(* gets none.                                                               *)
C28_LiteralHintsOnlyForLiterals ==
    vpc = "done"
    => LiteralHintsOnlyForLiterals(Concat(vtext), lex(Concat(vtext)), vhints)

(***************************************************************************)
(* Properties of the recorded function signatures.                         *)
(***************************************************************************)
IsTypeOpening(tok) == IsOpening(tok) \/ is_punct(tok, "<")

IsTypeClosing(tok) == IsClosing(tok) \/ is_punct(tok, ">")

(* The nesting depth in <>, (), [] and {} before token j, counted from      *)
(* token from on.                                                           *)
RECURSIVE NestBefore(_, _, _)
NestBefore(tokens, from, j) ==
    IF j <= from THEN 0
    ELSE IF IsTypeOpening(TokAt(tokens, j - 1)) THEN NestBefore(tokens, from, j - 1) + 1
    ELSE IF IsTypeClosing(TokAt(tokens, j - 1))
    THEN Dec(NestBefore(tokens, from, j - 1))
    ELSE NestBefore(tokens, from, j - 1)

(* The tokens fn that start a declaration: a name, '(' and its ')'.         *)
RECURSIVE FnSites(_, _)
FnSites(tokens, i) ==
    IF i + 2 >= Len(tokens) THEN <<>>
    ELSE IF /\ is_ident(TokAt(tokens, i), Kw_fn)
            /\ TokAt(tokens, i + 1).kind = "Ident"
            /\ is_punct(TokAt(tokens, i + 2), "(")
            /\ find_matching_paren(tokens, i + 2).some
    THEN <<i>> \o FnSites(tokens, find_matching_paren(tokens, i + 2).v + 1)
    ELSE FnSites(tokens, i + 1)

SiteClose(tokens, i) == find_matching_paren(tokens, i + 2).v

(* Token j is a ',' between the parameters of the list opened at open.      *)
SeparatesParams(tokens, open, j) ==
    is_punct(TokAt(tokens, j), ",") /\ NestBefore(tokens, open + 1, j) = 0

(* The name of the parameter that starts at token j: its first identifier   *)
(* other than mut and ref.                                                  *)
RECURSIVE ParamNameFrom(_, _, _, _)
ParamNameFrom(tokens, open, j, close) ==
    IF j >= close \/ SeparatesParams(tokens, open, j) THEN <<>>
    ELSE IF TokAt(tokens, j).kind = "Ident" /\ TokAt(tokens, j).name \notin {Kw_mut, Kw_ref}
    THEN <<TokAt(tokens, j).name>>
    ELSE ParamNameFrom(tokens, open, j + 1, close)

(* The parameter names between open and close, in declaration order.        *)
RECURSIVE DeclaredParams(_, _, _, _)
DeclaredParams(tokens, open, j, close) ==
    IF j >= close THEN <<>>
    ELSE IF /\ ~SeparatesParams(tokens, open, j)
            /\ (j = open + 1 \/ SeparatesParams(tokens, open, j - 1))
    THEN ParamNameFrom(tokens, open, j, close)
         \o DeclaredParams(tokens, open, j + 1, close)
    ELSE DeclaredParams(tokens, open, j + 1, close)

(* Token j ends a return type that starts at token from.                    *)
EndsReturnType(tokens, from, j) ==
    /\ \/ is_punct(TokAt(tokens, j), "{") \/ is_punct(TokAt(tokens, j), ";")
       \/ is_ident(TokAt(tokens, j), Kw_where)
    /\ NestBefore(tokens, from, j) = 0

(* The offset at which the return type that starts at token from ends: the  *)
(* first ending token, the end of the text when there is none.              *)
DeclaredReturnEnd(text, tokens, from) ==
    IF \E j \in from..(Len(tokens) - 1) : EndsReturnType(tokens, from, j)
    THEN TokAt(tokens, CHOOSE j \in from..(Len(tokens) - 1) :
                          /\ EndsReturnType(tokens, from, j)
                          /\ \A k \in from..(j - 1) : ~EndsReturnType(tokens, from, k)).start
    ELSE Len(text)

(* The return type of the declaration whose ')' is token close; an empty    *)
(* spelling is no return type.                                              *)
DeclaredReturn(text, tokens, close) ==
    IF close + 1 < Len(tokens) /\ TokAt(tokens, close + 1).kind = "Arrow"
    THEN ReturnTypeSlice(Trim(Slice(text, TokAt(tokens, close + 1).end,
                                    DeclaredReturnEnd(text, tokens, close + 2))))
    ELSE None

(* The declarations of name among the sites, in order.                      *)
RECURSIVE SitesNamed(_, _, _)
SitesNamed(tokens, sites, name) ==
    IF sites = <<>> THEN <<>>
    ELSE (IF TokAt(tokens, Head(sites) + 1).name = name THEN <<Head(sites)>> ELSE <<>>)
         \o SitesNamed(tokens, Tail(sites), name)

SiteNames(tokens, sites) == {TokAt(tokens, sites[k] + 1).name : k \in DOMAIN sites}

(* The signatures recorded for name are those of its declarations.          *)
RecordedAsDeclared(text, tokens, sigs, named) ==
    /\ Len(sigs) = Len(named)
    /\ \A k \in DOMAIN named :
          /\ sigs[k].params
               = DeclaredParams(tokens, named[k] + 2, named[k] + 3,
                                SiteClose(tokens, named[k]))
          /\ sigs[k].return_type
               = DeclaredReturn(text, tokens, SiteClose(tokens, named[k]))

SignaturesAsDeclared(text, tokens, sites, index) ==
    /\ DOMAIN index.fn_defs = SiteNames(tokens, sites)
    /\ \A name \in SiteNames(tokens, sites) :
          RecordedAsDeclared(text, tokens, index.fn_defs[name],
                             SitesNamed(tokens, sites, name))

(* C27: the return type recorded for a function is the trimmed text between *)
(* '->' and the first '{', ';' or where outside <>, () and [] nesting, a    *)
(* function without '->' after its parameter list has none, and the         *)
(* recorded params are the parameter names in declaration order.            *)
C27_SignatureAsDeclared ==
    vpc = "done"
    => SignaturesAsDeclared(Concat(vtext), lex(Concat(vtext)),
                            FnSites(lex(Concat(vtext)), 0), mindex)

(***************************************************************************)
(* Properties of the angle-bracket matching.                               *)
(***************************************************************************)
Openers == {"(", "[", "{"}
Closers == {")", "]", "}"}

IsOneOf(tok, chars) == \E c \in chars : is_punct(tok, c)

(* The '>' that balances the '<' at idx, '<' and '>' inside (), [] or {}    *)
(* nested within the list left out of the count.                            *)
RECURSIVE BalancedAngleFrom(_, _, _, _)
BalancedAngleFrom(tokens, i, angle, nest) ==
    IF i >= Len(tokens) THEN None
    ELSE IF IsOneOf(TokAt(tokens, i), Openers)
    THEN BalancedAngleFrom(tokens, i + 1, angle, nest + 1)
    ELSE IF IsOneOf(TokAt(tokens, i), Closers)
    THEN BalancedAngleFrom(tokens, i + 1, angle, IF nest > 0 THEN nest - 1 ELSE 0)
    ELSE IF nest = 0 /\ is_punct(TokAt(tokens, i), "<")
    THEN BalancedAngleFrom(tokens, i + 1, angle + 1, nest)
    ELSE IF nest = 0 /\ is_punct(TokAt(tokens, i), ">")
    THEN IF angle - 1 = 0 THEN Some(i)
         ELSE BalancedAngleFrom(tokens, i + 1, angle - 1, nest)
    ELSE BalancedAngleFrom(tokens, i + 1, angle, nest)

BalancedAngle(tokens, idx) == BalancedAngleFrom(tokens, idx, 0, 0)

(* The '<' at idx follows a name that may carry generic arguments.          *)
OpensArgumentList(tokens, idx) ==
    /\ is_punct(TokAt(tokens, idx), "<")
    /\ idx > 0
    /\ SkipDoubleColon(tokens, idx - 1).some
    /\ TokAt(tokens, SkipDoubleColon(tokens, idx - 1).v).kind = "Ident"
    /\ ~is_keyword(TokAt(tokens, SkipDoubleColon(tokens, idx - 1).v).name)

ListName(tokens, idx) == TokAt(tokens, SkipDoubleColon(tokens, idx - 1).v).name

(* The positions of the const parameters of a parameter list.               *)
ConstPositions(generics) ==
    {k \in DOMAIN generics : generics[k].kind = "Const"}

(* A hint labelled name lies between the tokens open and close.             *)
HintedWithin(text, tokens, hints, open, close, name) ==
    \E h \in DOMAIN hints :
        /\ hints[h].label = name \o <<":">>
        /\ \E off \in TokAt(tokens, open).start..TokAt(tokens, close).start :
              hints[h].position = offset_to_position(text, off).v

(* The list opened at idx ends at the balancing '>' and its const           *)
(* arguments are hinted.                                                    *)
ListEndsBalanced(text, tokens, hints, index, idx) ==
    /\ find_matching_angle(tokens, idx) = BalancedAngle(tokens, idx)
    /\ (/\ BalancedAngle(tokens, idx).some
        /\ generic_follows(tokens, BalancedAngle(tokens, idx).v)
        /\ unique_generics(index, ListName(tokens, idx)).some)
       => \A k \in ConstPositions(unique_generics(index, ListName(tokens, idx)).v) :
             k <= Len(ArgumentStarts(tokens, idx, idx + 1,
                                     BalancedAngle(tokens, idx).v))
             => HintedWithin(text, tokens, hints, idx, BalancedAngle(tokens, idx).v,
                    unique_generics(index, ListName(tokens, idx)).v[k].name)

ListsEndBalanced(text, tokens, hints, index) ==
    \A idx \in 0..(Len(tokens) - 1) :
        OpensArgumentList(tokens, idx)
        => ListEndsBalanced(text, tokens, hints, index, idx)

(* C26: the search for the '>' closing a generic list ignores '<' and '>'   *)
(* inside (), [] or {} nested within the list, so the list ends at the '>'  *)
(* that balances the opening '<' outside any such bracket.                  *)
C26_AngleMatchingSkipsBrackets ==
    vpc = "done"
    => ListsEndBalanced(Concat(vtext), lex(Concat(vtext)), vhints, ConstIndex)

(***************************************************************************)
(* Properties of the chained-expression pass.                              *)
(***************************************************************************)
Whitespace == {" ", "\t", "\n", "\r", "\f"}

(* The offset of the first character from i on that is not whitespace, the  *)
(* length of the text when there is none.                                   *)
NextNonWhitespace(text, i) ==
    IF \E j \in i..(Len(text) - 1) : At(text, j) \notin Whitespace
    THEN CHOOSE j \in i..(Len(text) - 1) :
             /\ At(text, j) \notin Whitespace
             /\ \A k \in i..(j - 1) : At(text, k) \in Whitespace
    ELSE Len(text)

CharIs(text, i, ch) == i < Len(text) /\ At(text, i) = ch

(* After the ')' at close comes '.', or '?' and then '.'.                   *)
FollowedByDot(text, close) ==
    \/ CharIs(text, NextNonWhitespace(text, close + 1), ".")
    \/ /\ CharIs(text, NextNonWhitespace(text, close + 1), "?")
       /\ CharIs(text,
                 NextNonWhitespace(text, NextNonWhitespace(text, close + 1) + 1),
                 ".")

ReturnTypeThrough(index, call) ==
    IF SigOfCall(index, call).some THEN SigOfCall(index, call).v.return_type
    ELSE None

RECURSIVE ChainHintsOf(_, _, _)
ChainHintsOf(text, calls, index) ==
    IF calls = <<>> THEN <<>>
    ELSE (IF /\ Head(calls).kind = "Method" \/ FollowedByDot(text, Head(calls).close_paren)
             /\ ReturnTypeThrough(index, Head(calls)).some
          THEN <<[position |-> offset_to_position(text, Head(calls).close_paren + 1).v,
                  label |-> <<":", " ">> \o ReturnTypeThrough(index, Head(calls)).v,
                  kind |-> "TYPE"]>>
          ELSE <<>>)
         \o ChainHintsOf(text, Tail(calls), index)

====
